---- MODULE Spec2Model ----


(***************************************************************************)
(* Model of the Automation Conflict & Recommendation Engine of             *)
(* sf-governance (src/server/rules/recommendationEngine.js).               *)
(*                                                                         *)
(* Three specifications share the module:                                  *)
(*   SpecScore  applies computeScore to argument triples;                  *)
(*   SpecAudit  applies classifyStack and auditOrderOfExecution to the     *)
(*              active items of one object;                                *)
(*   Spec       runs one generateRecommendations pass over an inventory    *)
(*              and persists its rows one INSERT at a time.                *)
(*                                                                         *)
(* Strings the engine only interpolates (object names, field names, event  *)
(* names) are TLA+ strings.  API names are sequences of UTF-16 code units, *)
(* because the engine orders them in two different ways.  A hazard's text  *)
(* is modelled by the values its template interpolates.                    *)
(***************************************************************************)
EXTENDS Integers, Sequences, FiniteSets, TLC

VARIABLES
    scored,           \* SpecScore: the computeScore calls made so far
    activeItems,      \* SpecAudit: the active items of one object
    pattern,          \* SpecAudit: result of classifyStack, or NULL
    ooeAudit,         \* SpecAudit: result of auditOrderOfExecution
    auditThrew,       \* SpecAudit: auditOrderOfExecution raised a TypeError
    apc,              \* SpecAudit: position
    inventory,        \* Spec: the scan's automation_inventory rows
    profile,          \* Spec: the customer profile of the org
    findings,         \* Spec: the findings of the pass
    recommendations,  \* Spec: the in-memory list of generateRecommendations
    recTable,         \* Spec: rows of the recommendations table, in insert order
    pc,               \* Spec: position of the pass
    rules,            \* SpecAnalysis: the rows of the rules table handed to runAnalysis
    analysisThrew,    \* SpecAnalysis: runAnalysis raised instead of returning
    findingsTable,    \* SpecRun: rows of the findings table under the run id
    conflictsTable,   \* SpecRun: rows of automation_conflicts written by the run
    enhanced,         \* SpecRun: recommendations visited by runPostAnalysisLlm
    response,         \* SpecRun: the last HTTP response sent to a client
    rulesTable,       \* SpecRules: rows of the rules table, in sort_order
    profileTable,     \* SpecRules: the customer_profiles row of the org, if any
    edits,            \* SpecRules: requests served by the rule and profile routes
    org,              \* SpecRemediation: the orgs row of the remediation jobs
    jobs,             \* SpecRemediation: rows of remediation_jobs, by id
    generating,       \* SpecRemediation: ids of the jobs whose generator is running
    approval,         \* SpecRemediation: the approveRemediation call in progress
    rollbackRows,     \* SpecRemediation: rows of remediation_rollbacks
    deployLog,        \* SpecRemediation: the deploy calls sent to the org
    store,            \* SpecProgress: the Map of the progress store, by job id
    timers,           \* SpecProgress: pending removal timers, by job id
    scanData,         \* SpecDelete: rows of each table that belong to the scan
    scanBefore,       \* SpecDelete: scanData when the request arrived
    deleting          \* SpecDelete: position of the DELETE /api/scans/:id handler

vars == <<scored, activeItems, pattern, ooeAudit, auditThrew, apc,
          inventory, profile, findings, recommendations, recTable, pc,
          rules, analysisThrew, findingsTable, conflictsTable, enhanced, response,
          rulesTable, profileTable, edits,
          org, jobs, generating, approval, rollbackRows, deployLog,
          store, timers, scanData, scanBefore, deleting>>

scoreVars == <<scored>>
auditVars == <<activeItems, pattern, ooeAudit, auditThrew, apc>>
analysisVars == <<rules, analysisThrew>>
runVars == <<findingsTable, conflictsTable, enhanced, response>>
ruleVars == <<rulesTable, profileTable, edits>>
remediationVars == <<org, jobs, generating, approval, rollbackRows, deployLog>>
progressVars == <<store, timers>>
deleteVars == <<scanData, scanBefore, deleting>>
serviceVars == <<ruleVars, remediationVars, progressVars, deleteVars>>
passVars  == <<inventory, profile, findings, recommendations, recTable, pc, analysisVars,
               runVars, serviceVars>>

NULL == "null"

(***************************************************************************)
(* Bounds of the model.                                                    *)
(***************************************************************************)
MaxCount == 4        \* largest affectedCount handed to computeScore in SpecScore
MaxScoreCalls == 2   \* computeScore calls recorded in SpecScore
MaxActive == 3       \* active items on the audited object in SpecAudit
MaxItems == 3        \* inventory rows of the pass in Spec

(***************************************************************************)
(* Generic sequence helpers (Array.prototype.map/filter/sort/flatMap).     *)
(***************************************************************************)
Range(s) == {s[i] : i \in DOMAIN s}

FlatMap(s, F(_)) ==
    LET f[i \in 0..Len(s)] == IF i = 0 THEN <<>> ELSE f[i - 1] \o F(s[i])
    IN f[Len(s)]

MapSeq(s, F(_)) == [i \in DOMAIN s |-> F(s[i])]

\* [...new Set(s)]: first occurrences, in order
RECURSIVE Dedupe(_)
Dedupe(s) ==
    IF s = <<>> THEN <<>>
    ELSE LET r == Dedupe(SubSeq(s, 1, Len(s) - 1))
             x == s[Len(s)]
         IN IF x \in Range(r) THEN r ELSE Append(r, x)

\* Array.prototype.sort with a comparator is stable (ES2019): element i lands
\* after every element that compares lower and after every earlier element
\* that compares equal.
StableSort(s, Less(_, _)) ==
    LET before(i) == {j \in DOMAIN s :
                         \/ Less(s[j], s[i])
                         \/ (~Less(s[i], s[j]) /\ j < i)}
    IN [k \in DOMAIN s |-> s[CHOOSE i \in DOMAIN s : Cardinality(before(i)) = k - 1]]

Slice(s, n) == SubSeq(s, 1, IF Len(s) < n THEN Len(s) ELSE n)

(***************************************************************************)
(* API names and the two orders the engine uses on them.                   *)
(***************************************************************************)
\* UTF-16 code units of the ASCII letters used in names
IsUpper(c) == c >= 65 /\ c <= 90
Fold(c) == IF IsUpper(c) THEN c + 32 ELSE c

\* Array.prototype.sort() without comparator: code-unit order of the strings
RECURSIVE codeUnitLess(_, _)
codeUnitLess(a, b) ==
    IF b = <<>> THEN FALSE
    ELSE IF a = <<>> THEN TRUE
    ELSE IF Head(a) # Head(b) THEN Head(a) < Head(b)
    ELSE codeUnitLess(Tail(a), Tail(b))

\* String.prototype.localeCompare on ASCII letters (root collation): letters
\* compare case-insensitively first; strings equal up to case order the
\* lower-case letter first at the first difference.
RECURSIVE primaryCompare(_, _)
primaryCompare(a, b) ==
    IF a = <<>> /\ b = <<>> THEN 0
    ELSE IF a = <<>> THEN -1
    ELSE IF b = <<>> THEN 1
    ELSE IF Fold(Head(a)) # Fold(Head(b))
         THEN (IF Fold(Head(a)) < Fold(Head(b)) THEN -1 ELSE 1)
    ELSE primaryCompare(Tail(a), Tail(b))

RECURSIVE caseCompare(_, _)
caseCompare(a, b) ==
    IF a = <<>> \/ b = <<>> THEN 0
    ELSE IF Head(a) # Head(b) THEN (IF IsUpper(Head(a)) THEN 1 ELSE -1)
    ELSE caseCompare(Tail(a), Tail(b))

localeCompare(a, b) ==
    LET p == primaryCompare(a, b)
    IN IF p # 0 THEN p ELSE caseCompare(a, b)

(***************************************************************************)
(* computeScore and its tables.                                            *)
(***************************************************************************)
Severities == {"error", "warning", "info"}
Efforts == {"low", "medium", "high"}

severityScore(severity) ==
    CASE severity = "error" -> 100
      [] severity = "warning" -> 50
      [] severity = "info" -> 10
      [] OTHER -> 0

effortPenalty(effort) ==
    CASE effort = "low" -> 0
      [] effort = "medium" -> 10
      [] effort = "high" -> 25
      [] OTHER -> 0

\* JavaScript's x || 10: 0 (and a missing key) is falsy
OrTen(x) == IF x = 0 THEN 10 ELSE x

\* faulty variant: the effort penalty is added
computeScore_SignSlip(severity, affectedCount, effort) ==
    OrTen(severityScore(severity)) + affectedCount * 5 + OrTen(effortPenalty(effort))

computeScore(severity, affectedCount, effort) ==
    OrTen(severityScore(severity)) + affectedCount * 5 - OrTen(effortPenalty(effort))

(***************************************************************************)
(* SpecScore: computeScore applied to argument triples.                    *)
(***************************************************************************)
ScoreCall(severity, affectedCount, effort) ==
    /\ Len(scored) < MaxScoreCalls
    /\ scored' = Append(scored,
                        [severity |-> severity, affectedCount |-> affectedCount,
                         effort |-> effort,
                         score |-> computeScore(severity, affectedCount, effort)])
    /\ UNCHANGED <<auditVars, passVars>>

ScoreNext ==
    \E severity \in Severities, affectedCount \in 0..MaxCount, effort \in Efforts :
        ScoreCall(severity, affectedCount, effort)

AuditIdle ==
    /\ activeItems = <<>>
    /\ pattern = NULL
    /\ ooeAudit = [sequence |-> <<>>, risks |-> <<>>]
    /\ auditThrew = FALSE
    /\ apc = "idle"

AnalysisIdle ==
    /\ rules = <<>>
    /\ analysisThrew = FALSE

RunIdle ==
    /\ findingsTable = <<>>
    /\ conflictsTable = <<>>
    /\ enhanced = 0
    /\ response = [route |-> "none", status |-> 0, rows |-> <<>>]

RulesIdle ==
    /\ rulesTable = <<>>
    /\ profileTable = <<>>
    /\ edits = 0

NoApproval == [job |-> 0, pc |-> "idle", from |-> NULL]

RemediationIdle ==
    /\ org = [env |-> "production", instance_url |-> "https://acme.my.salesforce.com"]
    /\ jobs = <<>>
    /\ generating = {}
    /\ approval = NoApproval
    /\ rollbackRows = <<>>
    /\ deployLog = <<>>

ProgressIds == {"p1", "p2"}

ProgressIdle ==
    /\ store = <<>>
    /\ timers = [id \in ProgressIds |-> 0]

ScanRows(n) ==
    [automation_conflicts |-> n, recommendation_items |-> n, recommendations |-> n,
     findings |-> n, analysis_runs |-> n, automation_inventory |-> n,
     metadata_items |-> n, scans |-> n, remediation_jobs |-> n]

DeleteIdle ==
    /\ scanData = ScanRows(0)
    /\ scanBefore = ScanRows(0)
    /\ deleting = "idle"

ServiceIdle ==
    /\ RulesIdle
    /\ RemediationIdle
    /\ ProgressIdle
    /\ DeleteIdle

PassIdle ==
    /\ AnalysisIdle
    /\ RunIdle
    /\ ServiceIdle
    /\ inventory = <<>>
    /\ profile = [automation_preference |-> "flow_first"]
    /\ findings = <<>>
    /\ recommendations = <<>>
    /\ recTable = <<>>
    /\ pc = "idle"

ScoreInit ==
    /\ scored = <<>>
    /\ AuditIdle
    /\ PassIdle

SpecScore == ScoreInit /\ [][ScoreNext]_vars

EffortRank(effort) ==
    CASE effort = "low" -> 0 [] effort = "medium" -> 1 [] OTHER -> 2

\* C2: score monotonicity. With equal severity and effort the call with the
\* larger affectedCount scores strictly higher; with equal severity and
\* affectedCount the call with the higher effort never scores higher.
ScoreMonotone ==
    \A i, j \in DOMAIN scored :
        /\ ( /\ scored[i].severity = scored[j].severity
             /\ scored[i].effort = scored[j].effort
             /\ scored[i].affectedCount > scored[j].affectedCount )
           => scored[i].score > scored[j].score
        /\ ( /\ scored[i].severity = scored[j].severity
             /\ scored[i].affectedCount = scored[j].affectedCount
             /\ EffortRank(scored[i].effort) > EffortRank(scored[j].effort) )
           => scored[i].score <= scored[j].score

ScoreMonotoneWitness ==
    /\ Len(scored) = 2
    /\ scored[1].severity = scored[2].severity
    /\ scored[1].affectedCount = scored[2].affectedCount
    /\ scored[1].effort = "low"
    /\ scored[2].effort = "high"
    /\ scored[2].score < scored[1].score

(***************************************************************************)
(* Automation items (automation_inventory rows) as the parsers store them. *)
(***************************************************************************)
WorkflowRule == "Workflow Rule"
ProcessBuilder == "Process Builder"
RecordTriggeredFlow == "Record-Triggered Flow"
AutolaunchedFlow == "Autolaunched Flow"
ApexTrigger == "Apex Trigger"

DEPRECATED_TYPES == {WorkflowRule, ProcessBuilder}
MODERN_FLOW_TYPES == {RecordTriggeredFlow}
APEX_TYPES == {ApexTrigger}

\* An optional JSON field: <<>> when the key is missing, <<v>> when present.
None == <<>>
Some(v) == <<v>>

\* a trigger event such as "before insert": its timing word and its operation
Ev(when, op) == [when |-> when, op |-> op]

\* parsed_data (JSONB); present = FALSE models a row without parsed_data
ParsedData(triggerType, events, fieldUpdateFields) ==
    [present |-> TRUE, triggerType |-> triggerType, events |-> events,
     fieldUpdateFields |-> fieldUpdateFields,
     handlerClass |-> None, hasDmlInBody |-> FALSE, dmlObjects |-> <<>>]

NoParsedData ==
    [present |-> FALSE, triggerType |-> NULL, events |-> <<>>,
     fieldUpdateFields |-> None,
     handlerClass |-> None, hasDmlInBody |-> FALSE, dmlObjects |-> <<>>]

\* (item.parsed_data?.fieldUpdateFields || [])
fieldUpdateFieldsOf(item) ==
    IF item.parsed_data.present /\ item.parsed_data.fieldUpdateFields # None
    THEN item.parsed_data.fieldUpdateFields[1]
    ELSE <<>>

\* (item.parsed_data?.events || [])
eventsOf(item) ==
    IF item.parsed_data.present THEN item.parsed_data.events ELSE <<>>

SomeSeq(s, P(_)) == \E i \in DOMAIN s : P(s[i])

(***************************************************************************)
(* Order-of-execution audit.                                               *)
(***************************************************************************)
BEFORE_FLOW == 1
APEX_BEFORE == 2
APEX_AFTER == 3
WORKFLOW_RULE == 4
PROCESS_BUILDER == 5
AFTER_FLOW == 6

PHASE_LABEL(phase) ==
    CASE phase = BEFORE_FLOW -> "Before-save Flow"
      [] phase = APEX_BEFORE -> "Apex before trigger"
      [] phase = APEX_AFTER -> "Apex after trigger"
      [] phase = WORKFLOW_RULE -> "Workflow Rule (after save)"
      [] phase = PROCESS_BUILDER -> "Process Builder (after save)"
      [] phase = AFTER_FLOW -> "After-save Flow"

\* faulty variant: the after-events are looked at only when no before-event exists
getExecutionPhases_ElseIf(item) ==
    IF item.automation_type = WorkflowRule THEN <<WORKFLOW_RULE>>
    ELSE IF item.automation_type = ProcessBuilder THEN <<PROCESS_BUILDER>>
    ELSE IF item.automation_type \in MODERN_FLOW_TYPES
    THEN (IF item.parsed_data.present /\ item.parsed_data.triggerType = "RecordBeforeSave"
          THEN <<BEFORE_FLOW>> ELSE <<AFTER_FLOW>>)
    ELSE IF item.automation_type \in APEX_TYPES
    THEN (IF SomeSeq(eventsOf(item), LAMBDA e : e.when = "before") THEN <<APEX_BEFORE>>
          ELSE IF SomeSeq(eventsOf(item), LAMBDA e : e.when = "after") THEN <<APEX_AFTER>>
          ELSE <<APEX_BEFORE>>)
    ELSE <<>>

getExecutionPhases(item) ==
    IF item.automation_type = WorkflowRule THEN <<WORKFLOW_RULE>>
    ELSE IF item.automation_type = ProcessBuilder THEN <<PROCESS_BUILDER>>
    ELSE IF item.automation_type \in MODERN_FLOW_TYPES
    THEN (IF item.parsed_data.present /\ item.parsed_data.triggerType = "RecordBeforeSave"
          THEN <<BEFORE_FLOW>> ELSE <<AFTER_FLOW>>)
    ELSE IF item.automation_type \in APEX_TYPES
    THEN LET events == eventsOf(item)
             phases == (IF SomeSeq(events, LAMBDA e : e.when = "before")
                        THEN <<APEX_BEFORE>> ELSE <<>>)
                       \o (IF SomeSeq(events, LAMBDA e : e.when = "after")
                           THEN <<APEX_AFTER>> ELSE <<>>)
         IN IF Len(phases) > 0 THEN phases ELSE <<APEX_BEFORE>>
    ELSE <<>>

\* comparator of entries.sort: phase, then localeCompare of the API names
entryLess(a, b) ==
    \/ a.phase < b.phase
    \/ (a.phase = b.phase /\ localeCompare(a.item.api_name, b.item.api_name) < 0)

\* faulty variant: the entries are sorted by phase only
sortedEntries_PhaseOnly(items) ==
    StableSort(
        FlatMap(items, LAMBDA item :
            MapSeq(getExecutionPhases(item),
                   LAMBDA phase : [item |-> item, phase |-> phase])),
        LAMBDA a, b : a.phase < b.phase)

\* one entry per item per phase, sorted
sortedEntries(items) ==
    StableSort(
        FlatMap(items, LAMBDA item :
            MapSeq(getExecutionPhases(item),
                   LAMBDA phase : [item |-> item, phase |-> phase])),
        entryLess)

byPhase(entries, phase) == SelectSeq(entries, LAMBDA e : e.phase = phase)

entryNames(entries) == MapSeq(entries, LAMBDA e : e.item.api_name)

\* a hazard; the keys a hazard type does not interpolate keep their defaults
Risk(type, severity) ==
    [type |-> type, severity |-> severity, phase |-> 0, names |-> <<>>,
     apexNames |-> <<>>, namesFields |-> FALSE, fields |-> <<>>, more |-> 0,
     field |-> "", writers |-> <<>>, winner |-> <<>>]

\* faulty variant: the hazard needs three triggers in the phase
undefinedOrderRisk_Three(entries, phase) ==
    LET group == SelectSeq(entries, LAMBDA e : e.phase = phase)
    IN IF Len(group) > 2
       THEN << [Risk("undefined_order", "high") EXCEPT
                   !.phase = phase,
                   !.names = MapSeq(group, LAMBDA e : e.item.api_name)] >>
       ELSE <<>>

\* multiple Apex triggers in the same phase
undefinedOrderRisk(entries, phase) ==
    LET group == byPhase(entries, phase)
    IN IF Len(group) >= 2
       THEN << [Risk("undefined_order", "high") EXCEPT
                   !.phase = phase, !.names = entryNames(group)] >>
       ELSE <<>>

\* faulty variant: the names are listed in the order of the sequence, without .sort()
flowOrderRisk_Unsorted(entries, phase) ==
    LET group == SelectSeq(entries, LAMBDA e : e.phase = phase)
    IN IF Len(group) >= 2
       THEN << [Risk("flow_order", "warning") EXCEPT
                   !.phase = phase,
                   !.names = MapSeq(group, LAMBDA e : e.item.api_name)] >>
       ELSE <<>>

\* multiple Flows in the same phase; the names are listed after .sort()
flowOrderRisk(entries, phase) ==
    LET group == byPhase(entries, phase)
    IN IF Len(group) >= 2
       THEN << [Risk("flow_order", "warning") EXCEPT
                   !.phase = phase,
                   !.names = StableSort(entryNames(group), codeUnitLess)] >>
       ELSE <<>>

apexEntriesOf(entries) == byPhase(entries, APEX_BEFORE) \o byPhase(entries, APEX_AFTER)

\* faulty variant: the entries are not filtered by their field-write set
withUpdates_All(group) == group

withUpdates(group) == SelectSeq(group, LAMBDA e : Len(fieldUpdateFieldsOf(e.item)) > 0)

writtenFields(group) == Dedupe(FlatMap(group, LAMBDA e : fieldUpdateFieldsOf(e.item)))

moreThan3(fields) == IF Len(fields) > 3 THEN Len(fields) - 3 ELSE 0

\* faulty variant: only the before-triggers count as re-fired
retriggerRisk_BeforeOnly(entries) ==
    LET apexEntries == byPhase(entries, APEX_BEFORE)
        wfrWithUpdates == withUpdates(byPhase(entries, WORKFLOW_RULE))
        fields == writtenFields(wfrWithUpdates)
    IN IF Len(wfrWithUpdates) > 0 /\ Len(apexEntries) > 0
       THEN << [Risk("retrigger_risk", "high") EXCEPT
                   !.names = Dedupe(entryNames(wfrWithUpdates)),
                   !.apexNames = Dedupe(entryNames(apexEntries)),
                   !.namesFields = TRUE,
                   !.fields = Slice(fields, 3),
                   !.more = moreThan3(fields)] >>
       ELSE <<>>

\* Workflow Rule field updates re-save the record and re-fire the triggers
retriggerRisk(entries) ==
    LET apexEntries == apexEntriesOf(entries)
        wfrWithUpdates == withUpdates(byPhase(entries, WORKFLOW_RULE))
        fields == writtenFields(wfrWithUpdates)
    IN IF Len(wfrWithUpdates) > 0 /\ Len(apexEntries) > 0
       THEN << [Risk("retrigger_risk", "high") EXCEPT
                   !.names = Dedupe(entryNames(wfrWithUpdates)),
                   !.apexNames = Dedupe(entryNames(apexEntries)),
                   !.namesFields = TRUE,
                   !.fields = Slice(fields, 3),
                   !.more = moreThan3(fields)] >>
       ELSE <<>>

\* faulty variant: no hazard when the Process Builders carry no field-write data
pbRetriggerRisk_NoFallback(entries) ==
    LET apexEntries == apexEntriesOf(entries)
        pbWithUpdates == withUpdates(byPhase(entries, PROCESS_BUILDER))
        fields == writtenFields(pbWithUpdates)
    IN IF Len(pbWithUpdates) > 0 /\ Len(apexEntries) > 0
       THEN << [Risk("pb_retrigger", "warning") EXCEPT
                   !.names = entryNames(pbWithUpdates),
                   !.apexNames = Dedupe(entryNames(apexEntries)),
                   !.namesFields = TRUE,
                   !.fields = Slice(fields, 3),
                   !.more = moreThan3(fields)] >>
       ELSE <<>>

\* Process Builder and Apex coexistence
pbRetriggerRisk(entries) ==
    LET apexEntries == apexEntriesOf(entries)
        pbEntries == byPhase(entries, PROCESS_BUILDER)
        pbWithUpdates == withUpdates(pbEntries)
        fields == writtenFields(pbWithUpdates)
    IN IF Len(pbEntries) > 0 /\ Len(apexEntries) > 0
       THEN IF Len(pbWithUpdates) > 0
            THEN << [Risk("pb_retrigger", "warning") EXCEPT
                        !.names = entryNames(pbWithUpdates),
                        !.apexNames = Dedupe(entryNames(apexEntries)),
                        !.namesFields = TRUE,
                        !.fields = Slice(fields, 3),
                        !.more = moreThan3(fields)] >>
            ELSE << [Risk("pb_retrigger", "warning") EXCEPT
                        !.names = entryNames(pbEntries),
                        !.apexNames = Dedupe(entryNames(apexEntries))] >>
       ELSE <<>>

\* faulty variant: the entry that fires first is named as the winner
fieldConflictRisks_FirstWins(entries) ==
    LET phaseLess(a, b) == a.phase < b.phase
        conflict(field) ==
            LET writers == SelectSeq(entries, LAMBDA e :
                               field \in Range(fieldUpdateFieldsOf(e.item)))
                sortedWriters == StableSort(writers, phaseLess)
            IN IF Len(writers) < 2 THEN <<>>
               ELSE << [Risk("field_conflict", "warning") EXCEPT
                           !.field = field,
                           !.writers = MapSeq(sortedWriters, LAMBDA e :
                               [name |-> e.item.api_name, phase |-> e.phase,
                                label |-> PHASE_LABEL(e.phase)]),
                           !.winner = sortedWriters[1].item.api_name] >>
    IN FlatMap(writtenFields(entries), conflict)

\* the same field written by two or more entries: the last phase wins
fieldConflictRisks(entries) ==
    LET phaseLess(a, b) == a.phase < b.phase
        conflict(field) ==
            LET writers == SelectSeq(entries, LAMBDA e :
                               field \in Range(fieldUpdateFieldsOf(e.item)))
                sortedWriters == StableSort(writers, phaseLess)
            IN IF Len(writers) < 2 THEN <<>>
               ELSE << [Risk("field_conflict", "warning") EXCEPT
                           !.field = field,
                           !.writers = MapSeq(sortedWriters, LAMBDA e :
                               [name |-> e.item.api_name, phase |-> e.phase,
                                label |-> PHASE_LABEL(e.phase)]),
                           !.winner = sortedWriters[Len(sortedWriters)].item.api_name] >>
    IN FlatMap(writtenFields(entries), conflict)

\* e.item.parsed_data.fieldUpdateFields inside the two flatMap calls is the
\* only dereference of parsed_data without ?. : it raises a TypeError for an
\* entry of the filtered group whose row has no parsed_data
auditThrows(items) ==
    LET entries == sortedEntries(items)
        wfrWithUpdates == withUpdates(byPhase(entries, WORKFLOW_RULE))
        pbWithUpdates == withUpdates(byPhase(entries, PROCESS_BUILDER))
        unguarded(group) == \E k \in DOMAIN group : ~group[k].item.parsed_data.present
    IN \/ /\ Len(wfrWithUpdates) > 0
          /\ Len(apexEntriesOf(entries)) > 0
          /\ unguarded(wfrWithUpdates)
       \/ /\ Len(pbWithUpdates) > 0
          /\ Len(apexEntriesOf(entries)) > 0
          /\ unguarded(pbWithUpdates)

auditOrderOfExecution(items) ==
    LET entries == sortedEntries(items)
    IN [sequence |-> MapSeq(entries, LAMBDA e :
                        [name |-> e.item.api_name, type |-> e.item.automation_type,
                         phase |-> e.phase, phaseLabel |-> PHASE_LABEL(e.phase)]),
        risks |-> undefinedOrderRisk(entries, APEX_BEFORE)
                  \o undefinedOrderRisk(entries, APEX_AFTER)
                  \o flowOrderRisk(entries, BEFORE_FLOW)
                  \o flowOrderRisk(entries, AFTER_FLOW)
                  \o retriggerRisk(entries)
                  \o pbRetriggerRisk(entries)
                  \o fieldConflictRisks(entries)]

(***************************************************************************)
(* Event normalization and stack classification.                           *)
(***************************************************************************)
normalizeEvents(item) ==
    IF item.automation_type \in DEPRECATED_TYPES THEN <<"after save">>
    ELSE IF item.automation_type \in MODERN_FLOW_TYPES
    THEN (IF item.trigger_events # NULL THEN <<item.trigger_events>> ELSE <<>>)
    ELSE IF item.automation_type \in APEX_TYPES
    THEN Dedupe(FlatMap(eventsOf(item), LAMBDA e :
             (IF e.op \in {"insert", "update", "undelete"}
              THEN <<IF e.when = "before" THEN "before save" ELSE "after save">>
              ELSE <<>>)
             \o (IF e.op \in {"delete", "undelete"} THEN <<"before delete">> ELSE <<>>)))
    ELSE <<>>

ofTypes(items, types) == SelectSeq(items, LAMBDA i : i.automation_type \in types)

\* eventCounts of classifyStack: how many flows list the event
eventCount(flowItems, event) ==
    Len(SelectSeq(FlatMap(flowItems, normalizeEvents), LAMBDA e : e = event))

\* faulty variant: two flows are fragmented whether or not they share an event
classifyStack_FlowCount(items) ==
    LET hasDeprecated == SomeSeq(items, LAMBDA i : i.automation_type \in DEPRECATED_TYPES)
        hasFlow == SomeSeq(items, LAMBDA i : i.automation_type \in MODERN_FLOW_TYPES)
        hasApex == SomeSeq(items, LAMBDA i : i.automation_type \in APEX_TYPES)
    IN IF hasDeprecated /\ hasFlow /\ hasApex THEN "deprecated_plus_mixed"
       ELSE IF hasDeprecated /\ hasFlow THEN "deprecated_plus_flow"
       ELSE IF hasDeprecated /\ hasApex THEN "deprecated_plus_apex"
       ELSE IF hasDeprecated THEN "deprecated_only"
       ELSE IF hasFlow /\ hasApex THEN "flow_and_apex"
       ELSE IF Len(ofTypes(items, APEX_TYPES)) > 1 THEN "apex_fragmented"
       ELSE IF Len(ofTypes(items, MODERN_FLOW_TYPES)) > 1 THEN "flow_fragmented"
       ELSE "clean"

classifyStack(items) ==
    LET hasDeprecated == SomeSeq(items, LAMBDA i : i.automation_type \in DEPRECATED_TYPES)
        hasFlow == SomeSeq(items, LAMBDA i : i.automation_type \in MODERN_FLOW_TYPES)
        hasApex == SomeSeq(items, LAMBDA i : i.automation_type \in APEX_TYPES)
        flowItems == ofTypes(items, MODERN_FLOW_TYPES)
        apexItems == ofTypes(items, APEX_TYPES)
    IN IF hasDeprecated /\ hasFlow /\ hasApex THEN "deprecated_plus_mixed"
       ELSE IF hasDeprecated /\ hasFlow THEN "deprecated_plus_flow"
       ELSE IF hasDeprecated /\ hasApex THEN "deprecated_plus_apex"
       ELSE IF hasDeprecated THEN "deprecated_only"
       ELSE IF Len(flowItems) > 0 /\ Len(apexItems) > 0 THEN "flow_and_apex"
       ELSE IF Len(apexItems) > 1 THEN "apex_fragmented"
       ELSE IF /\ Len(flowItems) > 1
               /\ \E e \in Range(FlatMap(flowItems, normalizeEvents)) :
                      eventCount(flowItems, e) > 1
            THEN "flow_fragmented"
       ELSE "clean"

(***************************************************************************)
(* Inputs: what the parsers of src/server/parsers produce for one row.     *)
(***************************************************************************)
\* API names by row position: "b", "A", "a", "B", "ab", "Ab"
NameList == << <<98>>, <<65>>, <<97>>, <<66>>, <<97, 98>>, <<65, 98>> >>
NameOf(i) == NameList[((i - 1) % Len(NameList)) + 1]

\* TRIGGER_TYPE_MAP of the flow parser
flowTriggerEvents(triggerType) ==
    CASE triggerType = "RecordBeforeSave" -> "before save"
      [] triggerType = "RecordAfterSave" -> "after save"
      [] triggerType = "RecordBeforeDelete" -> "before delete"
      [] triggerType = "Scheduled" -> "scheduled"
      [] OTHER -> NULL

Shape(type, triggerEvents, parsedData) ==
    [automation_type |-> type, trigger_events |-> triggerEvents,
     parsed_data |-> parsedData]

parseWorkflowRule(fieldUpdateFields) ==
    Shape(WorkflowRule, "on every save",
          ParsedData("onAllChanges", <<>>, Some(fieldUpdateFields)))

\* parseFlow on a Process Builder definition (start.triggerType is absent)
parseProcessBuilder(fieldUpdateFields) ==
    Shape(ProcessBuilder, NULL, ParsedData(NULL, <<>>, Some(fieldUpdateFields)))

\* parseFlow on a record-triggered flow
parseFlow(triggerType, fieldUpdateFields) ==
    Shape(RecordTriggeredFlow, flowTriggerEvents(triggerType),
          ParsedData(triggerType, <<>>, Some(fieldUpdateFields)))

\* parseApexTrigger: events of the trigger declaration, no field-write data
parseApexTrigger(events) ==
    Shape(ApexTrigger, IF events = <<>> THEN NULL ELSE "events",
          ParsedData(NULL, events, None))

\* parseApexTrigger on a body with a dispatch call and/or DML statements
parseApexTriggerBody(events, handlerClass, hasDmlInBody) ==
    Shape(ApexTrigger, IF events = <<>> THEN NULL ELSE "events",
          [ParsedData(NULL, events, None) EXCEPT
              !.handlerClass = handlerClass, !.hasDmlInBody = hasDmlInBody])

\* parseApexClass: the objects of the DML statements of the class
parseApexClass(dmlObjects) ==
    Shape("Apex Class", NULL,
          [ParsedData(NULL, <<>>, None) EXCEPT !.dmlObjects = dmlObjects])

Item(id, shape, object, active, described, managed) ==
    [id |-> id, api_name |-> NameOf(id), automation_type |-> shape.automation_type,
     object_name |-> object, trigger_events |-> shape.trigger_events,
     is_active |-> active, has_description |-> described,
     is_managed_package |-> managed, parsed_data |-> shape.parsed_data]

\* rows audited in SpecAudit
AuditShapes ==
    {parseWorkflowRule(f) : f \in {<<>>, <<"Status__c">>,
                                   <<"Stage__c", "Status__c", "Amount__c", "Rating__c">>}}
    \cup {Shape(WorkflowRule, "on every save", NoParsedData)}
    \cup {parseProcessBuilder(f) : f \in {<<>>, <<"Status__c">>,
                                          <<"Status__c", "Stage__c", "Amount__c", "Rating__c">>}}
    \cup {Shape(ProcessBuilder, NULL, ParsedData(NULL, <<>>, None))}
    \cup {parseFlow(t, f) : t \in {"RecordBeforeSave", "RecordAfterSave"},
                            f \in {<<>>, <<"Status__c">>}}
    \cup {parseFlow("PlatformEvent", <<>>)}
    \cup {Shape(RecordTriggeredFlow, NULL, NoParsedData)}
    \cup {Shape(ApexTrigger, NULL, NoParsedData)}
    \cup {parseApexTrigger(e) : e \in {<<>>, <<Ev("before", "insert")>>,
                                       <<Ev("after", "update")>>,
                                       <<Ev("before", "insert"), Ev("after", "update")>>}}
    \cup {Shape(AutolaunchedFlow, NULL, ParsedData(NULL, <<>>, Some(f))) :
              f \in {<<>>, <<"Status__c">>}}

AuditInputs ==
    UNION {[1..n -> AuditShapes] : n \in 0..MaxActive}

(***************************************************************************)
(* SpecAudit: classifyStack and auditOrderOfExecution on one object.       *)
(***************************************************************************)
NoAudit == [sequence |-> <<>>, risks |-> <<>>]

AuditInit ==
    /\ \E shapes \in AuditInputs :
           activeItems = [i \in DOMAIN shapes |->
                             Item(i, shapes[i], "Account", TRUE, FALSE, FALSE)]
    /\ pattern = NULL
    /\ ooeAudit = NoAudit
    /\ auditThrew = FALSE
    /\ apc = "input"
    /\ scored = <<>>
    /\ PassIdle

ClassifyStack ==
    /\ apc = "input"
    /\ pattern' = classifyStack(activeItems)
    /\ apc' = "classified"
    /\ UNCHANGED <<activeItems, ooeAudit, auditThrew, scoreVars, passVars>>

AuditOrderOfExecution ==
    /\ apc = "classified"
    /\ auditThrew' = auditThrows(activeItems)
    /\ ooeAudit' = IF auditThrew' THEN NoAudit ELSE auditOrderOfExecution(activeItems)
    /\ apc' = "audited"
    /\ UNCHANGED <<activeItems, pattern, scoreVars, passVars>>

AuditNext == ClassifyStack \/ AuditOrderOfExecution

SpecAudit == AuditInit /\ [][AuditNext]_vars

(***************************************************************************)
(* Properties of classifyStack and auditOrderOfExecution (SpecAudit).      *)
(***************************************************************************)
Count(S) == Cardinality(S)

itemsOfType(types) == {i \in DOMAIN activeItems : activeItems[i].automation_type \in types}

\* two distinct record-triggered flows with the same, present, trigger event
flowsShareEvent ==
    \E i, j \in itemsOfType({RecordTriggeredFlow}) :
        /\ i # j
        /\ activeItems[i].trigger_events # NULL
        /\ activeItems[i].trigger_events = activeItems[j].trigger_events

decisionTable ==
    LET legacy == Count(itemsOfType({WorkflowRule, ProcessBuilder}))
        flow == Count(itemsOfType({RecordTriggeredFlow}))
        apex == Count(itemsOfType({ApexTrigger}))
    IN CASE legacy > 0 /\ flow > 0 /\ apex > 0 -> "deprecated_plus_mixed"
         [] legacy > 0 /\ flow > 0 /\ apex = 0 -> "deprecated_plus_flow"
         [] legacy > 0 /\ flow = 0 /\ apex > 0 -> "deprecated_plus_apex"
         [] legacy > 0 /\ flow = 0 /\ apex = 0 -> "deprecated_only"
         [] legacy = 0 /\ flow > 0 /\ apex > 0 -> "flow_and_apex"
         [] legacy = 0 /\ flow = 0 /\ apex >= 2 -> "apex_fragmented"
         [] legacy = 0 /\ flow >= 2 /\ apex = 0 /\ flowsShareEvent -> "flow_fragmented"
         [] OTHER -> "clean"

\* C4: classifyStack returns the pattern of the first matching row of the
\* decision table; flows without a shared trigger event are clean.
ClassifyFollowsDecisionTable ==
    apc \in {"classified", "audited"} => pattern = decisionTable

ClassifyDistinctFlowsCleanWitness ==
    /\ apc = "classified"
    /\ Count(itemsOfType({RecordTriggeredFlow})) >= 2
    /\ Count(itemsOfType({RecordTriggeredFlow})) = Len(activeItems)
    /\ ~flowsShareEvent
    /\ pattern = "clean"

\* entries of the returned sequence
seqAt(phase) == {k \in DOMAIN ooeAudit.sequence : ooeAudit.sequence[k].phase = phase}

seqOf(i, phase) ==
    {k \in seqAt(phase) :
        /\ ooeAudit.sequence[k].name = activeItems[i].api_name
        /\ ooeAudit.sequence[k].type = activeItems[i].automation_type}

risksOf(type) == {k \in DOMAIN ooeAudit.risks : ooeAudit.risks[k].type = type}

hasEvent(i, when) ==
    /\ activeItems[i].parsed_data.present
    /\ \E k \in DOMAIN activeItems[i].parsed_data.events :
           activeItems[i].parsed_data.events[k].when = when

\* C6: a trigger with before- and after-events appears once in phase 2 and
\* once in phase 3; before-only: phase 2 only; after-only: phase 3 only; no
\* recognized event: once, in phase 2.
TriggerPhases ==
    apc = "audited" =>
        \A i \in itemsOfType({ApexTrigger}) :
            /\ Count(seqOf(i, APEX_BEFORE)) =
                   (IF hasEvent(i, "before") \/ ~hasEvent(i, "after") THEN 1 ELSE 0)
            /\ Count(seqOf(i, APEX_AFTER)) = (IF hasEvent(i, "after") THEN 1 ELSE 0)
            /\ \A phase \in {BEFORE_FLOW, WORKFLOW_RULE, PROCESS_BUILDER, AFTER_FLOW} :
                   seqOf(i, phase) = {}

TriggerPhasesWitness ==
    /\ apc = "audited"
    /\ \E i \in itemsOfType({ApexTrigger}) :
           /\ hasEvent(i, "before") /\ hasEvent(i, "after")
           /\ Count(seqOf(i, APEX_BEFORE)) = 1
           /\ Count(seqOf(i, APEX_AFTER)) = 1

namesAt(phase) == {ooeAudit.sequence[k].name : k \in seqAt(phase)}

\* C7: an undefined_order hazard of severity high is reported for phase 2
\* (3) exactly when two or more trigger entries share that phase, and it
\* names every trigger entry of the phase.
UndefinedOrderHazard ==
    apc = "audited" =>
        \A phase \in {APEX_BEFORE, APEX_AFTER} :
            LET hazards == {k \in risksOf("undefined_order") :
                               ooeAudit.risks[k].phase = phase}
            IN /\ (Count(seqAt(phase)) >= 2) <=> (hazards # {})
               /\ Count(hazards) <= 1
               /\ \A k \in hazards :
                      /\ ooeAudit.risks[k].severity = "high"
                      /\ Range(ooeAudit.risks[k].names) = namesAt(phase)
                      /\ Len(ooeAudit.risks[k].names) = Count(seqAt(phase))

UndefinedOrderWitness ==
    /\ apc = "audited"
    /\ pattern = "apex_fragmented"
    /\ \E k \in risksOf("undefined_order") :
           /\ ooeAudit.risks[k].phase = APEX_BEFORE
           /\ ooeAudit.risks[k].severity = "high"
           /\ Len(ooeAudit.risks[k].names) = 2

isSortedBy(s, Less(_, _)) == \A k, l \in DOMAIN s : k < l => ~Less(s[l], s[k])

writersOfType(type) ==
    {i \in itemsOfType({type}) :
        /\ activeItems[i].parsed_data.present
        /\ activeItems[i].parsed_data.fieldUpdateFields # None
        /\ activeItems[i].parsed_data.fieldUpdateFields[1] # <<>>}

fieldsWrittenBy(writers) ==
    UNION {Range(activeItems[i].parsed_data.fieldUpdateFields[1]) : i \in writers}

itemNames(S) == {activeItems[i].api_name : i \in S}

min3(n) == IF n < 3 THEN n ELSE 3

\* what a re-trigger hazard names: the writers, the triggers, at most 3 of
\* the written fields and the count of the remaining ones
namesWritersAndFields(risk, writers) ==
    /\ Range(risk.names) = itemNames(writers)
    /\ Range(risk.apexNames) = itemNames(itemsOfType({ApexTrigger}))
    /\ risk.namesFields
    /\ Range(risk.fields) \subseteq fieldsWrittenBy(writers)
    /\ Len(risk.fields) = min3(Count(fieldsWrittenBy(writers)))
    /\ Count(Range(risk.fields)) = Len(risk.fields)
    /\ risk.more = Count(fieldsWrittenBy(writers)) - Len(risk.fields)

\* C9: a retrigger_risk hazard of severity high is reported exactly when a
\* phase-4 item has a non-empty field-write set and a phase-2 or phase-3
\* entry exists; it names every such writer, every trigger and at most 3 of
\* the written fields followed by the count of the remaining ones.
RetriggerHazard ==
    apc = "audited" =>
        LET writers == writersOfType(WorkflowRule)
            hazards == risksOf("retrigger_risk")
        IN /\ (writers # {} /\ seqAt(APEX_BEFORE) \cup seqAt(APEX_AFTER) # {})
                  <=> (hazards # {})
           /\ Count(hazards) <= 1
           /\ \A k \in hazards :
                  /\ ooeAudit.risks[k].severity = "high"
                  /\ namesWritersAndFields(ooeAudit.risks[k], writers)

RetriggerWitness ==
    /\ apc = "audited"
    /\ \E k \in risksOf("retrigger_risk") :
           /\ Len(ooeAudit.risks[k].fields) = 3
           /\ ooeAudit.risks[k].more = 1
           /\ seqAt(APEX_BEFORE) = {}

pbAndApexPresent ==
    /\ itemsOfType({ProcessBuilder}) # {}
    /\ seqAt(APEX_BEFORE) \cup seqAt(APEX_AFTER) # {}

\* C10 as stated: with field-write data the branching-process hazard has
\* the severity of the re-trigger cascade (high); without it, a warning
\* that names no fields.
PbRetriggerSameSeverity ==
    apc = "audited" =>
        LET writers == writersOfType(ProcessBuilder)
            hazards == risksOf("pb_retrigger")
        IN pbAndApexPresent =>
               /\ Count(hazards) = 1
               /\ \A k \in hazards :
                      IF writers # {}
                      THEN /\ ooeAudit.risks[k].severity = "high"
                           /\ namesWritersAndFields(ooeAudit.risks[k], writers)
                      ELSE /\ ooeAudit.risks[k].severity = "warning"
                           /\ ~ooeAudit.risks[k].namesFields
                           /\ ooeAudit.risks[k].fields = <<>>

\* C10 amended: the branching-process hazard is a warning in both forms.
\* With field-write data it names the phase-5 writers, the triggers and at
\* most 3 written fields; without it, it names no fields.
PbRetriggerHazard ==
    apc = "audited" =>
        LET writers == writersOfType(ProcessBuilder)
            hazards == risksOf("pb_retrigger")
        IN /\ pbAndApexPresent <=> (hazards # {})
           /\ Count(hazards) <= 1
           /\ \A k \in hazards :
                  /\ ooeAudit.risks[k].severity = "warning"
                  /\ IF writers # {}
                     THEN namesWritersAndFields(ooeAudit.risks[k], writers)
                     ELSE /\ ~ooeAudit.risks[k].namesFields
                          /\ ooeAudit.risks[k].fields = <<>>
                          /\ ooeAudit.risks[k].more = 0
                          /\ Range(ooeAudit.risks[k].names) =
                                 itemNames(itemsOfType({ProcessBuilder}))
                          /\ Range(ooeAudit.risks[k].apexNames) =
                                 itemNames(itemsOfType({ApexTrigger}))

PbRetriggerWitness ==
    /\ apc = "audited"
    /\ \E k \in risksOf("pb_retrigger") :
           /\ ooeAudit.risks[k].namesFields
           /\ ooeAudit.risks[k].more = 1
           /\ ooeAudit.risks[k].severity = "warning"
    /\ risksOf("retrigger_risk") = {}

FieldNames == {"Status__c", "Stage__c", "Amount__c", "Rating__c"}

\* entries of the returned sequence whose item lists the field as written
writerEntries(field) ==
    {k \in DOMAIN ooeAudit.sequence :
        \E i \in DOMAIN activeItems :
            /\ activeItems[i].api_name = ooeAudit.sequence[k].name
            /\ activeItems[i].automation_type = ooeAudit.sequence[k].type
            /\ activeItems[i].parsed_data.present
            /\ activeItems[i].parsed_data.fieldUpdateFields # None
            /\ field \in Range(activeItems[i].parsed_data.fieldUpdateFields[1])}

\* C11: a field_conflict hazard is reported for a field exactly when two or
\* more entries write it; the hazard names exactly those entries, each with
\* the label of its phase, and the winner it names is a writer whose phase
\* is the highest among the writers.
FieldConflictSymmetry ==
    apc = "audited" =>
        /\ \A k \in risksOf("field_conflict") : ooeAudit.risks[k].field \in FieldNames
        /\ \A field \in FieldNames :
               LET hazards == {k \in risksOf("field_conflict") :
                                  ooeAudit.risks[k].field = field}
                   entries == writerEntries(field)
               IN /\ (Count(entries) >= 2) <=> (hazards # {})
                  /\ Count(hazards) <= 1
                  /\ \A k \in hazards :
                         LET writers == ooeAudit.risks[k].writers
                         IN /\ Len(writers) = Count(entries)
                            /\ \A w \in DOMAIN writers :
                                   /\ \E s \in entries :
                                          /\ ooeAudit.sequence[s].name = writers[w].name
                                          /\ ooeAudit.sequence[s].phase = writers[w].phase
                                   /\ writers[w].label = PHASE_LABEL(writers[w].phase)
                            /\ \A s \in entries : \E w \in DOMAIN writers :
                                   /\ ooeAudit.sequence[s].name = writers[w].name
                                   /\ ooeAudit.sequence[s].phase = writers[w].phase
                            /\ \E w \in DOMAIN writers :
                                   /\ writers[w].name = ooeAudit.risks[k].winner
                                   /\ \A v \in DOMAIN writers :
                                          writers[v].phase <= writers[w].phase

\* three writers of one field in three phases; the after-save flow wins
FieldConflictWitness ==
    /\ apc = "audited"
    /\ \E k \in risksOf("field_conflict") :
           /\ Len(ooeAudit.risks[k].writers) = 3
           /\ ooeAudit.risks[k].writers[1].phase = BEFORE_FLOW
           /\ ooeAudit.risks[k].writers[2].phase = WORKFLOW_RULE
           /\ ooeAudit.risks[k].writers[3].phase = AFTER_FLOW
           /\ ooeAudit.risks[k].winner = ooeAudit.risks[k].writers[3].name

\* the row with every missing structured-metadata field made empty
asEmpty(item) ==
    [item EXCEPT !.parsed_data =
        IF ~item.parsed_data.present THEN ParsedData(NULL, <<>>, Some(<<>>))
        ELSE IF item.parsed_data.fieldUpdateFields = None
        THEN [item.parsed_data EXCEPT !.fieldUpdateFields = Some(<<>>)]
        ELSE item.parsed_data]

noFieldWriteSet ==
    \A i \in DOMAIN activeItems :
        \/ ~activeItems[i].parsed_data.present
        \/ activeItems[i].parsed_data.fieldUpdateFields \in {None, Some(<<>>)}

\* C12 as stated: the audit never raises, and when no item carries a
\* field-write set it reports no re-trigger, no branching-process re-trigger
\* and no field-conflict hazard.
MissingMetadataNoHazard ==
    apc = "audited" =>
        /\ ~auditThrew
        /\ noFieldWriteSet =>
               /\ risksOf("retrigger_risk") = {}
               /\ risksOf("pb_retrigger") = {}
               /\ risksOf("field_conflict") = {}

\* C12 amended: the audit never raises; its result is the one it returns
\* when every missing field is present and empty; and when no item carries
\* a field-write set it reports no re-trigger and no field-conflict hazard,
\* and a branching-process hazard only in the form that names no fields.
MissingMetadataConservative ==
    apc = "audited" =>
        /\ ~auditThrew
        /\ ooeAudit = auditOrderOfExecution(
                          [i \in DOMAIN activeItems |-> asEmpty(activeItems[i])])
        /\ noFieldWriteSet =>
               /\ risksOf("retrigger_risk") = {}
               /\ risksOf("field_conflict") = {}
               /\ \A k \in risksOf("pb_retrigger") :
                      /\ ~ooeAudit.risks[k].namesFields
                      /\ ooeAudit.risks[k].fields = <<>>
                      /\ ooeAudit.risks[k].more = 0

\* a Workflow Rule without parsed_data, a Process Builder without
\* fieldUpdateFields and a trigger without parsed_data
MissingMetadataWitness ==
    /\ apc = "audited"
    /\ ~auditThrew
    /\ noFieldWriteSet
    /\ \E i \in itemsOfType({WorkflowRule}) : ~activeItems[i].parsed_data.present
    /\ \E i \in itemsOfType({ProcessBuilder}) :
           /\ activeItems[i].parsed_data.present
           /\ activeItems[i].parsed_data.fieldUpdateFields = None
    /\ \E i \in itemsOfType({ApexTrigger}) : ~activeItems[i].parsed_data.present
    /\ Len(ooeAudit.sequence) = 3
    /\ risksOf("pb_retrigger") # {}

\* the audit of the same items handed over in another order
permuted(p) == [i \in DOMAIN activeItems |-> activeItems[p[i]]]

\* C23: the sequence is sorted by phase and, within a phase, by API name in
\* the order of localeCompare; the items of the model have pairwise distinct
\* names, and every permutation of them yields the same sequence and hazards.
SequenceSortedAndOrderIndependent ==
    apc = "audited" /\ ~auditThrew =>
        /\ \A k \in DOMAIN ooeAudit.sequence :
               k + 1 \in DOMAIN ooeAudit.sequence =>
                   \/ ooeAudit.sequence[k].phase < ooeAudit.sequence[k + 1].phase
                   \/ /\ ooeAudit.sequence[k].phase = ooeAudit.sequence[k + 1].phase
                      /\ localeCompare(ooeAudit.sequence[k].name,
                                       ooeAudit.sequence[k + 1].name) <= 0
        /\ \A p \in Permutations(DOMAIN activeItems) :
               /\ ~auditThrows(permuted(p))
               /\ auditOrderOfExecution(permuted(p)) = ooeAudit

\* three items, handed over against the sorted order, with a hazard
SequenceSortedWitness ==
    /\ apc = "audited"
    /\ ~auditThrew
    /\ Len(activeItems) = 3
    /\ Len(ooeAudit.sequence) >= 3
    /\ ooeAudit.sequence[1].phase = ooeAudit.sequence[2].phase
    /\ ooeAudit.sequence[1].name = activeItems[3].api_name
    /\ ooeAudit.sequence[2].name = activeItems[1].api_name
    /\ ooeAudit.risks # <<>>

\* C26: an object classified apex_fragmented has an undefined_order hazard
\* in the audit of the same items.
ApexFragmentedHasUndefinedOrder ==
    apc = "audited" /\ ~auditThrew /\ pattern = "apex_fragmented"
        => risksOf("undefined_order") # {}

\* names of the sequence entries of a phase, in the order of the sequence
sequenceNamesAt(phase) ==
    MapSeq(SelectSeq(ooeAudit.sequence, LAMBDA e : e.phase = phase),
           LAMBDA e : e.name)

\* C27: a flow_order hazard names the flows of its phase in the order in
\* which they appear in the sequence of the same audit.
FlowOrderAgreesWithSequence ==
    apc = "audited" =>
        \A k \in risksOf("flow_order") :
            ooeAudit.risks[k].names = sequenceNamesAt(ooeAudit.risks[k].phase)

(***************************************************************************)
(* Recommendation synthesis: one generateRecommendations pass.             *)
(***************************************************************************)
estimateEffort(pat, itemCount) ==
    IF pat \in {"deprecated_plus_mixed", "apex_fragmented"} THEN "high"
    ELSE IF itemCount > 5 THEN "high"
    ELSE IF pat \in {"deprecated_only", "deprecated_plus_flow", "deprecated_plus_apex"}
    THEN (IF itemCount > 2 THEN "high" ELSE "medium")
    ELSE IF pat \in {"flow_fragmented", "flow_and_apex"} THEN "medium"
    ELSE "low"

severityRank(severity) ==
    CASE severity = "error" -> 0 [] severity = "warning" -> 1 [] OTHER -> 2

worstSeverity(fs) ==
    IF \E k \in DOMAIN fs : severityRank(fs[k].severity) = 0 THEN "error"
    ELSE IF \E k \in DOMAIN fs : severityRank(fs[k].severity) = 1 THEN "warning"
    ELSE "info"

\* item.object_name || '__global__'
objectKeyOf(item) == IF item.object_name = NULL THEN "__global__" ELSE item.object_name

\* keys of byObject in Object.entries order: first appearance in the inventory
objectKeys(items) == Dedupe(MapSeq(items, objectKeyOf))

onObject(items, objectKey) == SelectSeq(items, LAMBDA i : objectKeyOf(i) = objectKey)

idsOf(items) == MapSeq(items, LAMBDA i : i.id)

(***************************************************************************)
(* Steps of a recommendation.  A step is a string; the model keeps what    *)
(* kind of line it is and the values that tell the lines apart: for an     *)
(* instruction the opening words of its template and, for a deactivation,  *)
(* the condition that closes it.                                           *)
(***************************************************************************)
Instruction(verb, when) == [kind |-> "instruction", verb |-> verb, when |-> when]

\* formatSequenceStep: null for at most one entry, else the 1-indexed listing
formatSequenceStep(sequence) ==
    IF Len(sequence) <= 1 THEN None
    ELSE Some([kind |-> "sequence",
               lines |-> [i \in DOMAIN sequence |->
                             [n |-> i, name |-> sequence[i].name,
                              phaseLabel |-> sequence[i].phaseLabel]]])

\* classMap: the Apex Class rows of the inventory, looked up by api_name
\* (a later row of the same name replaces an earlier one)
classMapLookup(allItems, handlerClass) ==
    LET classes == SelectSeq(allItems, LAMBDA i :
                       /\ i.automation_type = "Apex Class"
                       /\ handlerClass # None
                       /\ i.api_name = handlerClass[1])
    IN IF classes = <<>> THEN None ELSE Some(classes[Len(classes)])

handlerClassOf(trigger) ==
    IF trigger.parsed_data.present THEN trigger.parsed_data.handlerClass ELSE None

findHandlerPairs(apexItems, allItems) ==
    FlatMap(apexItems, LAMBDA trigger :
        LET handlerClass == classMapLookup(allItems, handlerClassOf(trigger))
        IN IF handlerClass = None THEN <<>>
           ELSE << [trigger |-> trigger, handlerClass |-> handlerClass[1]] >>)

dmlObjectsOf(class) ==
    IF class.parsed_data.present THEN class.parsed_data.dmlObjects ELSE <<>>

\* object names differ only by case: the test sets use one spelling per
\* object, so toLowerCase() equality is equality
buildHandlerWarnings(handlerPairs, apexItems, otherActiveItems) ==
    FlatMap(handlerPairs, LAMBDA p :
        LET dmlObjects == dmlObjectsOf(p.handlerClass)
            objectName == p.trigger.object_name
            selfDml == \E k \in DOMAIN dmlObjects : dmlObjects[k] = objectName
            crossObjects == SelectSeq(dmlObjects, LAMBDA o : o # objectName)
        IN (IF selfDml /\ Len(otherActiveItems) > 0
            THEN << [kind |-> "handler_warning", type |-> "Handler class conflict",
                     name |-> p.handlerClass.api_name,
                     others |-> MapSeq(otherActiveItems, LAMBDA i : i.api_name),
                     objects |-> <<objectName>>] >>
            ELSE <<>>)
           \o (IF Len(crossObjects) > 0
               THEN << [kind |-> "handler_warning", type |-> "Cross-object DML",
                        name |-> p.handlerClass.api_name, others |-> <<>>,
                        objects |-> crossObjects] >>
               ELSE <<>>))
    \o FlatMap(apexItems, LAMBDA trigger :
           IF /\ trigger.parsed_data.present
              /\ trigger.parsed_data.hasDmlInBody
              /\ trigger.parsed_data.handlerClass = None
           THEN << [kind |-> "handler_warning", type |-> "Best practice violation",
                    name |-> trigger.api_name, others |-> <<>>, objects |-> <<>>] >>
           ELSE <<>>)

\* buildSteps as generateRecommendations calls it: ooeAudit is always given,
\* so the hazard lines are the texts of its risks
buildSteps(pat, activeItems_, preference, handlerWarnings, ooeAudit_) ==
    LET flows == ofTypes(activeItems_, MODERN_FLOW_TYPES)
        ooeRisks == MapSeq(ooeAudit_.risks, LAMBDA r : [kind |-> "risk", risk |-> r])
        sequenceStep == formatSequenceStep(ooeAudit_.sequence)
        allWarnings == ooeRisks \o handlerWarnings
        flowsFragmented ==
            \E e \in Range(FlatMap(flows, normalizeEvents)) : eventCount(flows, e) > 1
    IN CASE pat = "deprecated_only" ->
              << Instruction("Audit", "") >>
              \o sequenceStep \o allWarnings
              \o << Instruction("Build a new", ""),
                    Instruction("Test", ""),
                    Instruction("Deactivate and archive", "once testing passes") >>
         [] pat = "deprecated_plus_flow" /\ preference = "apex_first" ->
              << Instruction("Audit", ""), Instruction("Audit", "") >>
              \o sequenceStep \o allWarnings
              \o << Instruction("Consolidate", ""),
                    Instruction("Test", ""),
                    Instruction("Deactivate", "once testing passes") >>
         [] pat = "deprecated_plus_flow" /\ preference # "apex_first" ->
              << IF flowsFragmented THEN Instruction("Consolidate", "")
                                    ELSE Instruction("Review", ""),
                 Instruction("Audit", "") >>
              \o sequenceStep \o allWarnings
              \o << Instruction("Migrate", ""),
                    Instruction("Test", ""),
                    Instruction("Deactivate", "once testing passes") >>
         [] pat = "deprecated_plus_apex" ->
              << Instruction("Audit", ""), Instruction("Audit", "") >>
              \o sequenceStep \o allWarnings
              \o << IF preference = "flow_first" THEN Instruction("Evaluate", "")
                                                 ELSE Instruction("Consolidate", ""),
                    Instruction("Test", ""),
                    Instruction("Deactivate", "once testing passes") >>
         [] pat = "deprecated_plus_mixed" ->
              << Instruction("Full audit required", "") >>
              \o sequenceStep
              \o << Instruction("Audit", ""), Instruction("Audit", ""),
                    Instruction("Audit", "") >>
              \o allWarnings
              \o (IF preference = "apex_first"
                  THEN << Instruction("Consolidate", ""),
                          Instruction("Build a full regression test suite", ""),
                          Instruction("Deactivate",
                                      "once the handler is tested and verified") >>
                  ELSE << Instruction("Evaluate", ""),
                          Instruction("Build a full regression test suite", ""),
                          Instruction("Deactivate", "once testing passes") >>)
         [] pat = "flow_fragmented" ->
              << Instruction("Audit", "") >>
              \o sequenceStep \o allWarnings
              \o << Instruction("Merge", ""),
                    Instruction("Test", ""),
                    Instruction("Deactivate", "once testing passes") >>
         [] pat = "apex_fragmented" ->
              << Instruction("Audit", "") >>
              \o sequenceStep \o allWarnings
              \o << Instruction("Implement", ""),
                    Instruction("Replace", ""),
                    Instruction("Test", ""),
                    Instruction("Delete or deactivate", "once verified") >>
         [] pat = "flow_and_apex" ->
              << Instruction("Audit", ""), Instruction("Audit", "") >>
              \o sequenceStep \o allWarnings
              \o << Instruction("Evaluate", ""), Instruction("Ensure", "") >>
         [] OTHER -> <<>>

(***************************************************************************)
(* PATTERN_PATHS: recommended and alternative path per pattern and         *)
(* automation preference.                                                  *)
(***************************************************************************)
Preferences == {"flow_first", "apex_first", "balanced"}

Path(recommended, alternative) ==
    [recommended |-> Some(recommended), alternative |-> alternative,
     recommended_path |-> None, alternative_path |-> None]

\* PATTERN_PATHS[pattern]?.[preference]: the entry, if the table has one
PATTERN_PATHS(pat, preference) ==
    CASE pat = "deprecated_only" /\ preference = "flow_first" ->
          Some(Path(
            "Migrate all deprecated automation to a single Record-Triggered Flow",
            Some("Consolidate into a new Apex Trigger handler")))
      [] pat = "deprecated_only" /\ preference = "apex_first" ->
          Some(Path(
            "Consolidate all deprecated automation into a new Apex Trigger handler",
            Some("Migrate to a Record-Triggered Flow")))
      [] pat = "deprecated_only" /\ preference = "balanced" ->
          Some(Path(
            "Migrate all deprecated automation to a Record-Triggered Flow",
            Some("Consolidate into a new Apex Trigger handler")))
      [] pat = "deprecated_plus_flow" /\ preference = "flow_first" ->
          Some(Path(
            "Consolidate existing Flows, then migrate deprecated automation into the unified Flow",
            Some("Migrate everything to a single Apex Trigger handler")))
      [] pat = "deprecated_plus_flow" /\ preference = "apex_first" ->
          Some(Path(
            "Consolidate all automation (deprecated + Flows) into a single Apex Trigger handler",
            Some("Consolidate Flows and migrate deprecated automation into a unified Flow")))
      [] pat = "deprecated_plus_flow" /\ preference = "balanced" ->
          Some(Path(
            "Consolidate Flows, then migrate deprecated automation into the unified Flow",
            Some("Evaluate whether Apex or Flow is the better long-term consolidation target")))
      [] pat = "deprecated_plus_apex" /\ preference = "flow_first" ->
          Some(Path(
            "Migrate deprecated automation to a new Flow; evaluate whether Apex logic can also move to Flow",
            Some("Consolidate deprecated automation into the existing Apex Trigger handler")))
      [] pat = "deprecated_plus_apex" /\ preference = "apex_first" ->
          Some(Path(
            "Consolidate deprecated automation into the existing Apex Trigger handler",
            Some("Migrate deprecated automation to a new Flow alongside the existing Apex Trigger")))
      [] pat = "deprecated_plus_apex" /\ preference = "balanced" ->
          Some(Path(
            "Migrate deprecated automation to a Flow; keep Apex only for operations that require it",
            Some("Consolidate all into the existing Apex Trigger handler")))
      [] pat = "deprecated_plus_mixed" /\ preference = "flow_first" ->
          Some(Path(
            "Consolidate all automation into a single Record-Triggered Flow where feasible; keep Apex only for operations requiring it",
            Some("Consolidate all into a single Apex Trigger handler pattern")))
      [] pat = "deprecated_plus_mixed" /\ preference = "apex_first" ->
          Some(Path(
            "Consolidate all automation into a single Apex Trigger handler pattern",
            Some("Migrate simple logic to a Flow; consolidate complex logic in Apex")))
      [] pat = "deprecated_plus_mixed" /\ preference = "balanced" ->
          Some(Path(
            "Segregate responsibilities: keep Apex for complex operations, consolidate simple logic into a Flow",
            Some("Consolidate all into a single Apex Trigger handler")))
      [] pat = "flow_fragmented" /\ preference = "flow_first" ->
          Some(Path(
            "Merge all Record-Triggered Flows into a single Flow using Decision elements",
            Some("Consolidate all Flow logic into a single Apex Trigger handler")))
      [] pat = "flow_fragmented" /\ preference = "apex_first" ->
          Some(Path(
            "Consolidate all Flow logic into a single Apex Trigger handler",
            Some("Merge all Flows into a single Flow using Decision elements")))
      [] pat = "flow_fragmented" /\ preference = "balanced" ->
          Some(Path(
            "Merge all Record-Triggered Flows into a single Flow using Decision elements",
            Some("Consolidate into a single Apex Trigger handler")))
      [] pat = "apex_fragmented" /\ preference = "flow_first" ->
          Some(Path(
            "Consolidate triggers into a single handler pattern; evaluate migrating simple logic to a Flow",
            Some("Consolidate into a single Apex Trigger handler pattern")))
      [] pat = "apex_fragmented" /\ preference = "apex_first" ->
          Some(Path(
            "Consolidate multiple Apex Triggers into a single trigger handler pattern",
            Some("Evaluate migrating simpler trigger logic to a Flow")))
      [] pat = "apex_fragmented" /\ preference = "balanced" ->
          Some(Path(
            "Consolidate multiple Apex Triggers into a single trigger handler pattern",
            Some("Evaluate migrating simpler logic to a Flow after consolidation")))
      [] pat = "flow_and_apex" /\ preference = "flow_first" ->
          Some(Path(
            "Evaluate migrating Apex Trigger logic into the existing Flow; document the coexistence if Apex must remain",
            Some("Consolidate all logic into the Apex Trigger handler")))
      [] pat = "flow_and_apex" /\ preference = "apex_first" ->
          Some(Path(
            "Evaluate migrating Flow logic into the Apex Trigger handler; document the coexistence if the Flow must remain",
            Some("Keep the Flow and add explicit dependency documentation to both automations")))
      [] pat = "flow_and_apex" /\ preference = "balanced" ->
          Some(Path(
            "Document the coexistence explicitly in both automations; evaluate consolidating into whichever type handles the majority of the logic",
            None))
      [] OTHER -> None

\* faulty variant: the generic text is used whatever the table holds
pathsFor_Generic(pat, preference) ==
    [recommended |-> Some("Review and consolidate automation"),
     alternative |-> None, recommended_path |-> None, alternative_path |-> None]

\* PATTERN_PATHS[pattern]?.[preference] || { recommended: ..., alternative_path: null }
pathsFor(pat, preference) ==
    IF PATTERN_PATHS(pat, preference) # None
    THEN PATTERN_PATHS(pat, preference)[1]
    ELSE [recommended |-> Some("Review and consolidate automation"),
          alternative |-> None, recommended_path |-> None, alternative_path |-> None]

\* a ?? b
Coalesce(a, b) == IF a # None THEN a ELSE b

\* a recommendation without its steps and paths
Rec(objectName, pat, severity, effort, affected) ==
    [object_name |-> objectName, pattern |-> pat, severity |-> severity,
     effort_estimate |-> effort, affected_ids |-> affected,
     priority_score |-> computeScore(severity, Len(affected), effort),
     steps |-> <<>>, recommended |-> None, alternative |-> None,
     recommended_path |-> None, alternative_path |-> None]

\* the per-object recommendation: steps from buildSteps, paths from the table
objectRecommendation(objectName, pat, severity, active, allItems, preference) ==
    LET apexItems == ofTypes(active, APEX_TYPES)
        nonApexActive == SelectSeq(active, LAMBDA i : i.automation_type \notin APEX_TYPES)
        handlerPairs == findHandlerPairs(apexItems, allItems)
        handlerWarnings == buildHandlerWarnings(handlerPairs, apexItems, nonApexActive)
        paths == pathsFor(pat, preference)
    IN [Rec(objectName, pat, severity, estimateEffort(pat, Len(active)), idsOf(active))
           EXCEPT !.steps = buildSteps(pat, active, preference, handlerWarnings,
                                       auditOrderOfExecution(active)),
                  !.recommended = paths.recommended,
                  !.alternative = paths.alternative,
                  !.recommended_path = paths.recommended_path,
                  !.alternative_path = paths.alternative_path]

\* faulty variant: the clean objects are not skipped
objectRec_KeepClean(objectKey, items, fs, allItems, preference) ==
    LET active == SelectSeq(items, LAMBDA i : i.is_active)
        groupFindings == SelectSeq(fs, LAMBDA f :
                             f.automation_inventory_id \in Range(idsOf(items)))
        pat == classifyStack(active)
    IN IF objectKey = "__global__" \/ Len(active) = 0 THEN <<>>
       ELSE << objectRecommendation(objectKey, pat, worstSeverity(groupFindings),
                         active, allItems, preference) >>

\* body of the object-level loop: the recommendation of one object, if any
objectRec(objectKey, items, fs, allItems, preference) ==
    LET active == SelectSeq(items, LAMBDA i : i.is_active)
        groupFindings == SelectSeq(fs, LAMBDA f :
                             f.automation_inventory_id \in Range(idsOf(items)))
        pat == classifyStack(active)
    IN IF objectKey = "__global__" \/ Len(active) = 0 \/ pat = "clean" THEN <<>>
       ELSE << objectRecommendation(objectKey, pat,
                         IF Len(groupFindings) > 0 THEN worstSeverity(groupFindings)
                                                   ELSE "info",
                         active, allItems, preference) >>

\* The Workflow Rules of the model carry no actionTypes, so the alternative
\* path of an object whose rules send Outbound Messages is not modelled.
buildGlobalRecs(allItems) ==
    LET undocumented == SelectSeq(allItems, LAMBDA i :
                            i.is_active /\ ~i.has_description /\ ~i.is_managed_package)
        inactive == SelectSeq(allItems, LAMBDA i : ~i.is_active /\ ~i.is_managed_package)
        activeDeprecated == SelectSeq(allItems, LAMBDA i :
                                /\ i.is_active /\ ~i.is_managed_package
                                /\ i.automation_type \in DEPRECATED_TYPES)
        legacyRec(objectKey) ==
            LET legacyItems == onObject(activeDeprecated, objectKey)
                allOnObject ==
                    IF objectKey = "__global__" THEN <<>>
                    ELSE SelectSeq(onObject(allItems, objectKey), LAMBDA i :
                             i.automation_type # "Apex Class")
                modernActive == SelectSeq(allOnObject, LAMBDA i :
                                    /\ i.is_active
                                    /\ i.automation_type \notin DEPRECATED_TYPES)
                flowsOnObject == ofTypes(modernActive, MODERN_FLOW_TYPES)
                apexOnObject == ofTypes(modernActive, APEX_TYPES)
            IN << [Rec(NULL, "global_legacy", "error",
                       IF Len(legacyItems) > 3 THEN "high" ELSE "medium",
                       idsOf(legacyItems))
                      EXCEPT !.steps =
                                 << Instruction("Audit", ""),
                                    IF Len(flowsOnObject) > 0 \/ Len(apexOnObject) > 0
                                    THEN Instruction("Migrate", "")
                                    ELSE IF objectKey # "__global__"
                                    THEN Instruction("Build a new", "")
                                    ELSE Instruction("Map", ""),
                                    Instruction("Test", ""),
                                    Instruction("Deactivate and delete",
                                                "only after full validation") >>,
                             !.recommended_path =
                                 IF Len(flowsOnObject) > 0
                                 THEN Some("Migrate into existing")
                                 ELSE IF Len(apexOnObject) > 0
                                 THEN Some("Consolidate into existing Apex Trigger")
                                 ELSE Some("Migrate to a new Record-Triggered Flow"),
                             !.alternative_path =
                                 IF Len(flowsOnObject) > 0
                                 THEN Some("Consolidate into an Apex Trigger handler if complex logic requires it")
                                 ELSE Some("Consolidate into a new Apex Trigger handler")] >>
    IN (IF Len(undocumented) >= 3
        THEN << [Rec(NULL, "global_description", "warning",
                     IF Len(undocumented) > 10 THEN "medium" ELSE "low",
                     idsOf(undocumented))
                    EXCEPT !.steps = << Instruction("Add descriptions to", ""),
                                        Instruction("Each description should include", "") >>,
                           !.recommended_path =
                               Some("Add inline descriptions to all undocumented active automations")] >>
        ELSE <<>>)
       \o (IF Len(inactive) >= 3
           THEN << [Rec(NULL, "global_inactive", "info", "low", idsOf(inactive))
                       EXCEPT !.steps = << Instruction("Review", ""),
                                           Instruction("Delete", "") >>,
                              !.recommended_path =
                                  Some("Delete or archive all confirmed-unused inactive automations")] >>
           ELSE <<>>)
       \o FlatMap(objectKeys(activeDeprecated), legacyRec)

\* faulty variant: the list is persisted in the order it was built
sortRecommendations_None(recs) == recs

\* recommendations.sort((a, b) => b.priority_score - a.priority_score)
sortRecommendations(recs) ==
    StableSort(recs, LAMBDA a, b : a.priority_score > b.priority_score)

\* the synchronous part of generateRecommendations: the sorted list
buildRecommendations(items, fs, preference) ==
    LET grouped == SelectSeq(items, LAMBDA i : i.automation_type # "Apex Class")
        perObject == FlatMap(objectKeys(grouped), LAMBDA objectKey :
                         objectRec(objectKey, onObject(grouped, objectKey), fs,
                                   items, preference))
    IN sortRecommendations(perObject \o buildGlobalRecs(items))

(***************************************************************************)
(* Spec: the pass over an inventory, persisting one row per INSERT.        *)
(***************************************************************************)
Row(shape, object, active, described, managed) ==
    [shape |-> shape, object |-> object, active |-> active,
     described |-> described, managed |-> managed]

\* rows of the inventory of a pass
PassRows ==
    {Row(parseWorkflowRule(<<"Status__c">>), "Account", a, d, FALSE) :
         a \in BOOLEAN, d \in BOOLEAN}
    \cup {Row(parseFlow(t, <<>>), "Account", TRUE, FALSE, FALSE) :
              t \in {"RecordBeforeSave", "RecordAfterSave"}}
    \cup {Row(parseFlow("RecordAfterSave", <<>>), "Account", FALSE, TRUE, FALSE)}
    \cup {Row(parseApexTrigger(<<Ev("before", "insert")>>), o, TRUE, FALSE, FALSE) :
              o \in {"Account", "Contact"}}
    \cup {Row(parseProcessBuilder(<<"Status__c">>), o, TRUE, FALSE, m) :
              o \in {"Contact"}, m \in BOOLEAN}
    \cup {Row(parseWorkflowRule(<<>>), NULL, TRUE, FALSE, FALSE)}
    \cup {Row(parseApexTrigger(<<Ev("after", "update")>>), "Contact", FALSE, FALSE, FALSE)}

PassInventories ==
    UNION {[1..n -> PassRows] : n \in 0..MaxItems}

Finding(id, severity) == [automation_inventory_id |-> id, severity |-> severity]

\* findings of the pass: none, one on the first row, or two on the first two
FindingInputs(n) ==
    {<<>>}
    \cup {<<Finding(1, sev)>> : sev \in (IF n >= 1 THEN {"error", "warning"} ELSE {})}
    \cup (IF n >= 2 THEN {<<Finding(1, "info"), Finding(2, "warning")>>} ELSE {})

Init ==
    /\ \E rows \in PassInventories :
           /\ inventory = [i \in DOMAIN rows |->
                              Item(i, rows[i].shape, rows[i].object, rows[i].active,
                                   rows[i].described, rows[i].managed)]
           /\ findings \in FindingInputs(Len(rows))
    /\ profile = [automation_preference |-> "flow_first"]
    /\ recommendations = <<>>
    /\ recTable = <<>>
    /\ pc = "start"
    /\ scored = <<>>
    /\ AuditIdle
    /\ AnalysisIdle
    /\ RunIdle
    /\ ServiceIdle

\* lines 1012-1094: classify, audit, score, pool and sort, without an await
GenerateRecommendations ==
    /\ pc = "start"
    /\ recommendations' = buildRecommendations(inventory, findings,
                                                profile.automation_preference)
    /\ pc' = "persist"
    /\ UNCHANGED <<inventory, profile, findings, recTable, scoreVars, auditVars,
                   analysisVars, runVars,
                   serviceVars>>

\* the row stored by INSERT INTO recommendations: the columns of the statement,
\* and the defaults of the table for the columns it does not list
RecommendationRow(id, rec) ==
    [id |-> id,
     rec |-> rec,
     steps |-> [i \in DOMAIN rec.steps |-> [step |-> i, text |-> rec.steps[i]]],
     recommended_path |-> Coalesce(rec.recommended, rec.recommended_path),
     alternative_path |-> Coalesce(rec.alternative, rec.alternative_path),
     status |-> "open",
     llm_rationale |-> NULL,
     conflict_analysis |-> NULL,
     conflict_severity |-> NULL]

\* one iteration of the persist loop: INSERT INTO recommendations ... RETURNING id
InsertRecommendation ==
    /\ pc = "persist"
    /\ Len(recTable) < Len(recommendations)
    /\ recTable' = Append(recTable,
           RecommendationRow(Len(recTable) + 1, recommendations[Len(recTable) + 1]))
    /\ UNCHANGED <<inventory, profile, findings, recommendations, pc, scoreVars, auditVars,
                   analysisVars, runVars,
                   serviceVars>>

\* return count
ReturnCount ==
    /\ pc = "persist"
    /\ Len(recTable) = Len(recommendations)
    /\ pc' = "done"
    /\ UNCHANGED <<inventory, profile, findings, recommendations, recTable, scoreVars,
                   auditVars, analysisVars, runVars,
                   serviceVars>>

Next == GenerateRecommendations \/ InsertRecommendation \/ ReturnCount

Spec == Init /\ [][Next]_vars

(***************************************************************************)
(* SpecSteps: the same pass over the automation of one object, under each  *)
(* automation preference, with handler classes in the inventory.           *)
(***************************************************************************)
\* the class name "A" (row 2 carries this name)
HandlerName == <<65>>

StepRows ==
    {Row(parseWorkflowRule(<<"Status__c">>), "Account", TRUE, FALSE, FALSE),
     Row(parseFlow("RecordAfterSave", <<>>), "Account", TRUE, FALSE, FALSE),
     Row(parseFlow("RecordBeforeSave", <<"Status__c">>), "Account", TRUE, FALSE, FALSE),
     Row(parseApexTrigger(<<Ev("before", "insert")>>), "Account", TRUE, FALSE, FALSE),
     Row(parseApexTriggerBody(<<Ev("after", "update")>>, None, TRUE),
         "Account", TRUE, FALSE, FALSE),
     Row(parseApexTriggerBody(<<Ev("before", "update")>>, Some(HandlerName), TRUE),
         "Account", TRUE, FALSE, FALSE),
     Row(parseApexClass(<<"Account", "Contact">>), NULL, TRUE, FALSE, FALSE)}

StepInventories ==
    UNION {[1..n -> StepRows] : n \in 0..MaxItems}

StepsInit ==
    /\ \E rows \in StepInventories :
           inventory = [i \in DOMAIN rows |->
                           Item(i, rows[i].shape, rows[i].object, rows[i].active,
                                rows[i].described, rows[i].managed)]
    /\ \E preference \in Preferences : profile = [automation_preference |-> preference]
    /\ findings = <<>>
    /\ recommendations = <<>>
    /\ recTable = <<>>
    /\ pc = "start"
    /\ scored = <<>>
    /\ AuditIdle
    /\ AnalysisIdle
    /\ RunIdle
    /\ ServiceIdle

SpecSteps == StepsInit /\ [][Next]_vars

(***************************************************************************)
(* Properties of the pass (Spec).                                          *)
(***************************************************************************)
statedWeight(severity) ==
    CASE severity = "error" -> 100 [] severity = "warning" -> 50 [] severity = "info" -> 10

statedPenalty(effort) ==
    CASE effort = "low" -> 0 [] effort = "medium" -> 10 [] effort = "high" -> 25

\* C1: the priority_score of every recommendation, per-object or global, is
\* severityWeight + 5 * affectedCount - effortPenalty with weights
\* error=100, warning=50, info=10 and penalties low=0, medium=10, high=25.
ScoreMatchesTables ==
    \A k \in DOMAIN recommendations :
        recommendations[k].priority_score =
            statedWeight(recommendations[k].severity)
            + 5 * Len(recommendations[k].affected_ids)
            - statedPenalty(recommendations[k].effort_estimate)

isGlobal(rec) == rec.object_name = NULL

\* C3: per-object and global recommendations are pooled into one list,
\* scored by the same function, and inserted in non-increasing
\* priority_score order, whichever of the two kinds they are.
InsertedInScoreOrder ==
    /\ \A k, l \in DOMAIN recTable :
           k < l => recTable[k].rec.priority_score >= recTable[l].rec.priority_score
    /\ \A k \in DOMAIN recTable :
           /\ recTable[k].id = k
           /\ k <= Len(recommendations) /\ recTable[k].rec = recommendations[k]
           /\ recTable[k].rec.priority_score =
                  computeScore(recTable[k].rec.severity,
                               Len(recTable[k].rec.affected_ids),
                               recTable[k].rec.effort_estimate)
    /\ pc = "done" => Len(recTable) = Len(recommendations)

\* a global row inserted before a per-object row, and one inserted after
InsertedInScoreOrderWitness ==
    /\ pc = "done"
    /\ \E k, l, m \in DOMAIN recTable :
           /\ k < l /\ l < m
           /\ isGlobal(recTable[k].rec) /\ ~isGlobal(recTable[l].rec)
           /\ isGlobal(recTable[m].rec)
           /\ recTable[k].rec.priority_score > recTable[l].rec.priority_score
           /\ recTable[l].rec.priority_score > recTable[m].rec.priority_score

Patterns ==
    {"deprecated_plus_mixed", "deprecated_plus_flow", "deprecated_plus_apex",
     "deprecated_only", "flow_and_apex", "apex_fragmented", "flow_fragmented"}

objectsOf(items) == {items[i].object_name : i \in DOMAIN items} \ {NULL}

activeOn(object) ==
    SelectSeq(inventory, LAMBDA i : i.object_name = object /\ i.is_active)

recsOn(object) ==
    {k \in DOMAIN recommendations : recommendations[k].object_name = object}

\* C5: classifyStack returns one of the defined patterns or clean, and an
\* object classified clean, or without active automation (for which the
\* audit is empty), gets no recommendation naming it.
CleanObjectHasNoRecommendation ==
    \A object \in objectsOf(inventory) :
        /\ classifyStack(activeOn(object)) \in Patterns \cup {"clean"}
        /\ activeOn(object) = <<>> =>
               /\ classifyStack(<<>>) = "clean"
               /\ auditOrderOfExecution(activeOn(object)) = NoAudit
        /\ classifyStack(activeOn(object)) = "clean" =>
               /\ recsOn(object) = {}
               /\ \A k \in DOMAIN recTable : recTable[k].rec.object_name # object

\* a pass that persisted a recommendation, with an object that has active
\* automation and is clean, and an object without active automation
CleanObjectWitness ==
    /\ pc = "done"
    /\ recTable # <<>>
    /\ \E o1, o2 \in objectsOf(inventory) :
           /\ Len(activeOn(o1)) >= 1
           /\ classifyStack(activeOn(o1)) = "clean"
           /\ activeOn(o2) = <<>>
           /\ recsOn(o1) = {} /\ recsOn(o2) = {}

(***************************************************************************)
(* Properties of the steps and paths of per-object recommendations.        *)
(***************************************************************************)
perObjectRows == {k \in DOMAIN recTable : ~isGlobal(recTable[k].rec)}

\* the handler warnings of the object of a row
handlerWarningsOn(object) ==
    LET active == activeOn(object)
        apexItems == ofTypes(active, APEX_TYPES)
    IN buildHandlerWarnings(
           findHandlerPairs(apexItems, inventory), apexItems,
           SelectSeq(active, LAMBDA i : i.automation_type \notin APEX_TYPES))

isWarningOrListing(text) == text.kind \in {"sequence", "risk", "handler_warning"}

\* instructions that tell the reader to consolidate or migrate automation
ConsolidationVerbs ==
    {"Build a new", "Consolidate", "Migrate", "Evaluate", "Merge", "Implement", "Replace"}

isConsolidation(text) == text.kind = "instruction" /\ text.verb \in ConsolidationVerbs

\* C13: the steps of every per-object recommendation contain the sequence
\* listing when the audit sequence has two or more entries, every hazard
\* text and every handler warning, all at earlier positions than the first
\* consolidation or migration instruction; persisted steps are numbered
\* 1..n in list order.
WarningsPrecedeConsolidation ==
    \A k \in perObjectRows :
        LET steps == recTable[k].steps
            object == recTable[k].rec.object_name
            audit == auditOrderOfExecution(activeOn(object))
            warnings == handlerWarningsOn(object)
        IN /\ \A i \in DOMAIN steps :
                  steps[i].step = i /\ steps[i].text = recTable[k].rec.steps[i]
           /\ Len(audit.sequence) >= 2 =>
                  \E i \in DOMAIN steps :
                      steps[i].text = formatSequenceStep(audit.sequence)[1]
           /\ \A r \in DOMAIN audit.risks : \E i \in DOMAIN steps :
                  steps[i].text = [kind |-> "risk", risk |-> audit.risks[r]]
           /\ \A w \in DOMAIN warnings : \E i \in DOMAIN steps :
                  steps[i].text = warnings[w]
           /\ \A i, j \in DOMAIN steps :
                  (isWarningOrListing(steps[i].text) /\ isConsolidation(steps[j].text))
                      => i < j

\* C24: among the active triggers of the object, the best-practice warning
\* names exactly those with DML in the body that occur in no handler pair.
BestPracticeWarningIffUnresolved ==
    pc = "persist" =>
        LET apexItems == ofTypes(activeOn("Account"), APEX_TYPES)
            handlerPairs == findHandlerPairs(apexItems, inventory)
            warnings == handlerWarningsOn("Account")
        IN \A k \in DOMAIN apexItems :
               (\E w \in DOMAIN warnings :
                    /\ warnings[w].type = "Best practice violation"
                    /\ warnings[w].name = apexItems[k].api_name)
               <=> /\ apexItems[k].parsed_data.present
                   /\ apexItems[k].parsed_data.hasDmlInBody
                   /\ ~\E h \in DOMAIN handlerPairs :
                          handlerPairs[h].trigger = apexItems[k]

DeactivationVerbs == {"Deactivate", "Deactivate and archive", "Delete or deactivate"}

\* C14: the last step of every per-object recommendation tells the reader
\* to deactivate the replaced automation only after testing.
LastStepDeactivatesAfterTesting ==
    \A k \in perObjectRows :
        LET steps == recTable[k].steps
        IN /\ Len(steps) > 0
           /\ steps[Len(steps)].text.kind = "instruction"
           /\ steps[Len(steps)].text.verb \in DeactivationVerbs
           /\ steps[Len(steps)].text.when # ""

\* C15: PATTERN_PATHS has an entry for every pattern of the classifier and
\* each of the three preferences; the paths of every persisted per-object
\* recommendation are those of its entry, the generic text is never used
\* and recommended_path is never null.
PathsTakenFromTable ==
    /\ \A pat \in Patterns, preference \in Preferences :
           /\ PATTERN_PATHS(pat, preference) # None
           /\ PATTERN_PATHS(pat, preference)[1].recommended # None
    /\ profile.automation_preference \in Preferences
    /\ \A k \in perObjectRows :
           LET entry == PATTERN_PATHS(recTable[k].rec.pattern,
                                      profile.automation_preference)
           IN /\ recTable[k].rec.pattern \in Patterns
              /\ entry # None
              /\ recTable[k].recommended_path = entry[1].recommended
              /\ recTable[k].alternative_path = entry[1].alternative
              /\ recTable[k].recommended_path # None
              /\ recTable[k].recommended_path # Some("Review and consolidate automation")

\* the one entry of the table without an alternative
PathsTakenFromTableWitness ==
    /\ pc = "done"
    /\ profile.automation_preference = "balanced"
    /\ \E k \in perObjectRows :
           /\ recTable[k].rec.pattern = "flow_and_apex"
           /\ recTable[k].recommended_path # None
           /\ recTable[k].alternative_path = None

(***************************************************************************)
(* Rule evaluation: evaluateConditions and runAnalysis.                    *)
(*                                                                         *)
(* An evaluation yields the findings it pushed and whether an exception    *)
(* leaves it.  A heuristic (CHECKS[rule.id]) is modelled by its outcome on *)
(* each item: it returns true, returns false, or raises.                   *)
(***************************************************************************)
MaxRules == 2        \* rules handed to runAnalysis in SpecAnalysis
MaxConditions == 2   \* conditions of the declarative rule in SpecConditions

\* a JSON value of a condition: a scalar or an array of scalars
Scalar(v) == [isArray |-> FALSE, items |-> <<v>>]
Array(vs) == [isArray |-> TRUE, items |-> vs]

\* item[field]: undefined (None) when the row has no such column
itemField(item, field) ==
    CASE field = "automation_type" -> Some(item.automation_type)
      [] field = "trigger_events" -> Some(item.trigger_events)
      [] field = "object_name" -> Some(item.object_name)
      [] OTHER -> None

\* itemVal === value, for a value parsed from JSON (never undefined)
strictEquals(itemVal, value) ==
    ~value.isArray /\ itemVal = Some(value.items[1])

\* value.includes(itemVal)
includes(value, itemVal) ==
    itemVal # None /\ itemVal[1] \in Range(value.items)

\* the callback of conditions.every
evaluateCondition(item, condition) ==
    LET itemVal == itemField(item, condition.field)
    IN CASE condition.op = "eq" -> strictEquals(itemVal, condition.value)
         [] condition.op = "ne" -> ~strictEquals(itemVal, condition.value)
         [] condition.op = "in" ->
                condition.value.isArray /\ includes(condition.value, itemVal)
         [] condition.op = "not_in" ->
                condition.value.isArray /\ ~includes(condition.value, itemVal)
         [] OTHER -> FALSE

\* conditions: None for SQL NULL, else the JSON array
evaluateConditions(item, conditions) ==
    IF conditions = None \/ conditions[1] = <<>> THEN FALSE
    ELSE \A k \in DOMAIN conditions[1] : evaluateCondition(item, conditions[1][k])

\* what a try block or a loop body yields
Outcome(error, pushed) == [error |-> error, findings |-> pushed]

RuleFinding(rule, itemId) ==
    [rule_id |-> rule.id, severity |-> rule.severity, automation_inventory_id |-> itemId]

\* faulty variant: the handler rethrows
catch_Rethrow(outcome) == outcome

\* catch (err) { console.warn(...) }: the exception ends here
catch(outcome) == IF outcome.error THEN Outcome(FALSE, <<>>) ELSE outcome

\* the try block of a per-item rule on one item
tryPerItem(rule, item) ==
    IF rule.check # None
    THEN (CASE rule.check[1].outcome[item.id] = "throw" -> Outcome(TRUE, <<>>)
            [] rule.check[1].outcome[item.id] = "true" ->
                   Outcome(FALSE, <<RuleFinding(rule, item.id)>>)
            [] OTHER -> Outcome(FALSE, <<>>))
    ELSE IF rule.conditions # None /\ evaluateConditions(item, rule.conditions)
    THEN Outcome(FALSE, <<RuleFinding(rule, item.id)>>)
    ELSE Outcome(FALSE, <<>>)

\* the try block of a cross-item rule
tryCrossItem(rule) ==
    IF rule.check[1].throws THEN Outcome(TRUE, <<>>)
    ELSE Outcome(FALSE, MapSeq(rule.check[1].results, LAMBDA id : RuleFinding(rule, id)))

\* a loop: the outcomes of its iterations in order, up to the first
\* iteration an exception leaves
Loop(outcomes) ==
    LET f[i \in 0..Len(outcomes)] ==
            IF i = 0 THEN Outcome(FALSE, <<>>)
            ELSE IF f[i - 1].error THEN f[i - 1]
            ELSE Outcome(outcomes[i].error, f[i - 1].findings \o outcomes[i].findings)
    IN f[Len(outcomes)]

appliesTo(rule, item) ==
    Len(rule.applies_to) = 0 \/ item.automation_type \in Range(rule.applies_to)

\* the body of the loop over the active rules
evaluateRule(rule, items) ==
    IF rule.check_type = "per_item"
    THEN Loop(MapSeq(SelectSeq(items, LAMBDA item : appliesTo(rule, item)),
                     LAMBDA item : catch(tryPerItem(rule, item))))
    ELSE IF rule.check = None THEN Outcome(FALSE, <<>>)
    ELSE catch(tryCrossItem(rule))

activeRulesOf(allRules, prof) ==
    SelectSeq(allRules, LAMBDA r :
        /\ r.layer \in Range(prof.active_rule_layers)
        /\ r.id \notin Range(prof.suppressed_rule_ids))

runAnalysis(items, allRules, prof) ==
    Loop(MapSeq(activeRulesOf(allRules, prof), LAMBDA rule : evaluateRule(rule, items)))

(***************************************************************************)
(* SpecAnalysis: one runAnalysis call over two items and up to MaxRules    *)
(* rules.  SpecConditions: the same call with one declarative rule.        *)
(***************************************************************************)
AnalysisInventory ==
    << Item(1, parseWorkflowRule(<<"Status__c">>), "Account", TRUE, FALSE, FALSE),
       Item(2, parseFlow("PlatformEvent", <<>>), "Account", TRUE, FALSE, FALSE) >>

Rule(checkType, appliesTo_, check, conditions) ==
    [id |-> "", layer |-> "", severity |-> "warning", check_type |-> checkType,
     applies_to |-> appliesTo_, check |-> check, conditions |-> conditions]

Check(outcome, throws, results) ==
    [outcome |-> outcome, throws |-> throws, results |-> results]

HeuristicOutcomes == [DOMAIN AnalysisInventory -> {"true", "false", "throw"}]

RuleShapes ==
    {Rule("per_item", <<>>, Some(Check(o, FALSE, <<>>)), None) : o \in HeuristicOutcomes}
    \cup {Rule("per_item", <<RecordTriggeredFlow>>,
               Some(Check([i \in DOMAIN AnalysisInventory |-> "throw"], FALSE, <<>>)),
               None)}
    \cup {Rule("per_item", <<>>, None, c) :
              c \in {None, Some(<< [field |-> "automation_type", op |-> "eq",
                                    value |-> Scalar(WorkflowRule)] >>)}}
    \cup {Rule("cross_item", <<>>, Some(Check(<<>>, TRUE, <<>>)), None)}
    \cup {Rule("cross_item", <<>>, Some(Check(<<>>, FALSE, r)), None) :
              r \in {<<>>, <<1, 2>>}}
    \cup {Rule("cross_item", <<>>, None, None)}

\* rules rows in ORDER BY sort_order, id; the id is the primary key
RuleIds == <<"R1", "R2", "R3">>
RuleLayers == <<"platform", "quality", "risk">>

RuleRows(shapes) ==
    [k \in DOMAIN shapes |->
        [shapes[k] EXCEPT !.id = RuleIds[k], !.layer = RuleLayers[k],
                          !.severity = IF k = 1 THEN "error" ELSE "warning"]]

AllLayers == <<"platform", "quality", "risk", "housekeeping">>

AnalysisProfiles ==
    {[automation_preference |-> "flow_first", active_rule_layers |-> l,
      suppressed_rule_ids |-> x] :
         l \in {AllLayers}, x \in {<<>>, <<"R1">>}}
    \cup {[automation_preference |-> "flow_first",
           active_rule_layers |-> <<"quality", "risk">>, suppressed_rule_ids |-> <<>>]}

AnalysisIdleVars ==
    /\ recommendations = <<>>
    /\ recTable = <<>>
    /\ scored = <<>>
    /\ AuditIdle
    /\ RunIdle
    /\ ServiceIdle

AnalysisInit ==
    /\ \E shapes \in UNION {[1..n -> RuleShapes] : n \in 0..MaxRules} :
           rules = RuleRows(shapes)
    /\ profile \in AnalysisProfiles
    /\ inventory = AnalysisInventory
    /\ findings = <<>>
    /\ analysisThrew = FALSE
    /\ pc = "analysis"
    /\ AnalysisIdleVars

ConditionFields == {"automation_type", "trigger_events", "no_such_field"}
ConditionOps == {"eq", "ne", "in", "not_in", "gt"}
ConditionValues ==
    {Scalar(WorkflowRule), Array(<<WorkflowRule, RecordTriggeredFlow>>), Array(<<NULL>>)}

Conditions ==
    [field : ConditionFields, op : ConditionOps, value : ConditionValues]

ConditionsInit ==
    /\ \E cs \in UNION {[1..n -> Conditions] : n \in 1..MaxConditions} :
           rules = RuleRows(<< Rule("per_item", <<>>, None, Some(cs)) >>)
    /\ profile \in {p \in AnalysisProfiles : p.suppressed_rule_ids = <<>>
                                              /\ p.active_rule_layers = AllLayers}
    /\ inventory = AnalysisInventory
    /\ findings = <<>>
    /\ analysisThrew = FALSE
    /\ pc = "analysis"
    /\ AnalysisIdleVars

\* const findings = runAnalysis(inventoryResult.rows, rules, profile)
RunAnalysis ==
    /\ pc = "analysis"
    /\ LET result == runAnalysis(inventory, rules, profile)
       IN /\ analysisThrew' = result.error
          /\ findings' = IF result.error THEN <<>> ELSE result.findings
    /\ pc' = "analysed"
    /\ UNCHANGED <<inventory, profile, recommendations, recTable, rules,
                   scoreVars, auditVars, runVars,
                   serviceVars>>

AnalysisNext == RunAnalysis

SpecAnalysis == AnalysisInit /\ [][AnalysisNext]_vars

SpecConditions == ConditionsInit /\ [][AnalysisNext]_vars

(***************************************************************************)
(* Properties of rule evaluation.                                          *)
(***************************************************************************)
SupportedOps == {"eq", "ne", "in", "not_in"}

findingsOf(ruleId, itemId) ==
    {k \in DOMAIN findings :
        /\ findings[k].rule_id = ruleId
        /\ findings[k].automation_inventory_id = itemId}

\* the operator is unsupported or the item has no such field
malformedFor(condition, item) ==
    \/ condition.op \notin SupportedOps
    \/ itemField(item, condition.field) = None

\* C16: a rule with a condition whose operator is unsupported, or whose
\* field is missing from the item, does not match that item: no finding.
MalformedConditionNeverMatches ==
    pc = "analysed" =>
        /\ ~analysisThrew
        /\ \A r \in DOMAIN rules, i \in DOMAIN inventory :
               (/\ rules[r].check = None
                /\ rules[r].conditions # None
                /\ \E c \in DOMAIN rules[r].conditions[1] :
                       malformedFor(rules[r].conditions[1][c], inventory[i]))
               => /\ ~evaluateConditions(inventory[i], rules[r].conditions)
                  /\ findingsOf(rules[r].id, inventory[i].id) = {}

\* the rules runAnalysis evaluates
activeRules == activeRulesOf(rules, profile)

\* the heuristic of the rule raises during the pass: on an item the rule
\* applies to, or on the inventory for a cross-item rule
raises(rule) ==
    /\ rule.check # None
    /\ IF rule.check_type = "per_item"
       THEN \E i \in DOMAIN inventory :
                /\ appliesTo(rule, inventory[i])
                /\ rule.check[1].outcome[inventory[i].id] = "throw"
       ELSE rule.check[1].throws

unboundCrossItem(rule) == rule.check_type = "cross_item" /\ rule.check = None

findingsOfRules(ruleIds) == SelectSeq(findings, LAMBDA f : f.rule_id \in ruleIds)

RaisingRuleHasNoFinding ==
    pc = "analysed" =>
        \A r \in DOMAIN activeRules :
            raises(activeRules[r]) => findingsOfRules({activeRules[r].id}) = <<>>

(***************************************************************************)
(* SpecRun: the background pass of POST /:id/analysis, from the findings   *)
(* returned by runAnalysis to progress.done, one step per awaited query,   *)
(* with the requests of clients served between the steps.                  *)
(***************************************************************************)
OBJECT_CAP == 20

\* parseEvents(item.trigger_events): split on ',', trim, lower-case
parseEvents(item) ==
    IF item.trigger_events = NULL THEN <<>>
    ELSE IF item.automation_type \in APEX_TYPES
    THEN [i \in DOMAIN eventsOf(item) |->
             eventsOf(item)[i].when \o " " \o eventsOf(item)[i].op]
    ELSE <<item.trigger_events>>

groupHasOverlap(automations) ==
    \E i, j \in DOMAIN automations :
        /\ i < j
        /\ Range(parseEvents(automations[i])) \cap Range(parseEvents(automations[j])) # {}

\* capped: the objects with two or more active automations sharing an event
conflictingObjects(items) ==
    LET active == SelectSeq(items, LAMBDA i : i.is_active /\ i.object_name # NULL)
        conflicting == SelectSeq(objectKeys(active), LAMBDA o :
                           /\ Len(onObject(active, o)) >= 2
                           /\ groupHasOverlap(onObject(active, o)))
    IN SubSeq(conflicting, 1, IF Len(conflicting) > OBJECT_CAP THEN OBJECT_CAP
                              ELSE Len(conflicting))

\* analyzeObjectAutomations: null, or the text of the model and its severity
LlmResults ==
    {None} \cup {Some([analysis |-> "llm analysis", severity |-> sev]) :
                    sev \in {"high", "low"}}

\* conflictAnalysis and severity of one object, from the result or the audit
conflictRecord(objectName, automations, result) ==
    LET audit == auditOrderOfExecution(automations)
    IN [object_name |-> objectName,
        automation_ids |-> idsOf(automations),
        conflict_analysis |->
            IF result # None THEN result[1].analysis
            ELSE IF Len(audit.risks) > 0 THEN "detected risks"
            ELSE "Multiple automations share this object",
        severity |->
            IF result # None THEN result[1].severity
            ELSE IF \E k \in DOMAIN audit.risks : audit.risks[k].severity = "high"
            THEN "high" ELSE "medium",
        llm_generated |-> result # None]

\* enhanceRecommendationNarrative: null, or the narrative
Narratives == {NULL, "narrative"}

\* inventories of a run: empty, two flows on one event, a rule beside a flow,
\* two flows beside a trigger of another object, a rule beside two flows
RunInventories ==
    LET flow == Row(parseFlow("RecordAfterSave", <<>>), "Account", TRUE, FALSE, FALSE)
        rule == Row(parseWorkflowRule(<<"Status__c">>), "Account", TRUE, FALSE, FALSE)
        trigger == Row(parseApexTrigger(<<Ev("before", "insert")>>), "Contact",
                       TRUE, FALSE, FALSE)
    IN {<<>>, <<flow, flow>>, <<rule, flow>>, <<flow, flow, trigger>>,
        <<rule, flow, flow>>}

\* the run record exists, runAnalysis has returned its findings
RunInit ==
    /\ \E rows \in RunInventories :
           /\ inventory = [i \in DOMAIN rows |->
                              Item(i, rows[i].shape, rows[i].object, rows[i].active,
                                   rows[i].described, rows[i].managed)]
           /\ findings \in FindingInputs(Len(rows))
    /\ profile = [automation_preference |-> "flow_first"]
    /\ recommendations = <<>>
    /\ recTable = <<>>
    /\ pc = "findings"
    /\ scored = <<>>
    /\ AuditIdle
    /\ AnalysisIdle
    /\ RunIdle
    /\ ServiceIdle

\* one iteration of: for (const f of findings) await INSERT INTO findings
InsertFinding ==
    /\ pc = "findings"
    /\ Len(findingsTable) < Len(findings)
    /\ findingsTable' = Append(findingsTable, findings[Len(findingsTable) + 1])
    /\ UNCHANGED <<inventory, profile, findings, recommendations, recTable, pc,
                   conflictsTable, enhanced, response, scoreVars, auditVars, analysisVars,
                   serviceVars>>

\* DELETE FROM recommendation_items ..., DELETE FROM recommendations of the run
DeletePriorRecommendations ==
    /\ pc = "findings"
    /\ Len(findingsTable) = Len(findings)
    /\ recTable' = <<>>
    /\ pc' = "start"
    /\ UNCHANGED <<inventory, profile, findings, recommendations, runVars,
                   scoreVars, auditVars, analysisVars,
                   serviceVars>>

\* runConflictDetection up to its loop: DELETE FROM automation_conflicts
ClearConflicts ==
    /\ pc = "done"
    /\ conflictsTable' = <<>>
    /\ pc' = "conflicts"
    /\ UNCHANGED <<inventory, profile, findings, recommendations, recTable,
                   findingsTable, enhanced, response, scoreVars, auditVars, analysisVars,
                   serviceVars>>

\* One iteration of the loop over capped.  The INSERT and the UPDATE are two
\* awaited queries; the recommendations rows read between them are those read
\* before the INSERT, so the two are one step here.
AnalyzeObject ==
    /\ pc = "conflicts"
    /\ Len(conflictsTable) < Len(conflictingObjects(inventory))
    /\ LET objectName == conflictingObjects(inventory)[Len(conflictsTable) + 1]
           automations == SelectSeq(inventory, LAMBDA i :
                              i.is_active /\ i.object_name = objectName)
       IN IF auditThrows(automations)
          THEN /\ pc' = "failed"
               /\ UNCHANGED <<conflictsTable, recTable>>
          ELSE \E result \in LlmResults :
                   LET conflict == conflictRecord(objectName, automations, result)
                   IN /\ conflictsTable' = Append(conflictsTable, conflict)
                      /\ recTable' = [i \in DOMAIN recTable |->
                             IF recTable[i].rec.object_name = objectName
                             THEN [recTable[i] EXCEPT
                                      !.conflict_analysis = conflict.conflict_analysis,
                                      !.conflict_severity = conflict.severity]
                             ELSE recTable[i]]
                      /\ UNCHANGED pc
    /\ UNCHANGED <<inventory, profile, findings, recommendations,
                   findingsTable, enhanced, response, scoreVars, auditVars, analysisVars,
                   serviceVars>>

\* return capped.length; UPDATE analysis_runs SET finding_count
UpdateFindingCount ==
    /\ pc = "conflicts"
    /\ Len(conflictsTable) = Len(conflictingObjects(inventory))
    /\ pc' = "llm"
    /\ UNCHANGED <<inventory, profile, findings, recommendations, recTable, runVars,
                   scoreVars, auditVars, analysisVars,
                   serviceVars>>

\* one iteration of the loop of runPostAnalysisLlm over the rows of the run
EnhanceNarrative ==
    /\ pc = "llm"
    /\ enhanced < Len(recTable)
    /\ \E narrative \in Narratives :
           recTable' = IF narrative # NULL
                       THEN [recTable EXCEPT ![enhanced + 1].llm_rationale = narrative]
                       ELSE recTable
    /\ enhanced' = enhanced + 1
    /\ UNCHANGED <<inventory, profile, findings, recommendations, pc,
                   findingsTable, conflictsTable, response,
                   scoreVars, auditVars, analysisVars,
                   serviceVars>>

\* the loop has ended, or a query of runPostAnalysisLlm was rejected and its
\* own catch logged the error: progress.done
Complete ==
    /\ pc = "llm"
    /\ pc' = "complete"
    /\ UNCHANGED <<inventory, profile, findings, recommendations, recTable, runVars,
                   scoreVars, auditVars, analysisVars,
                   serviceVars>>

\* an awaited query of the pass is rejected: catch (err) { progress.fail(...) }
Fail ==
    /\ pc \in {"findings", "persist", "conflicts"}
    /\ pc' = "failed"
    /\ UNCHANGED <<inventory, profile, findings, recommendations, recTable, runVars,
                   scoreVars, auditVars, analysisVars,
                   serviceVars>>

\* GET /:id/findings?runId=
GetFindings ==
    /\ response' = [route |-> "GET findings", status |-> 200, rows |-> findingsTable]
    /\ UNCHANGED <<inventory, profile, findings, recommendations, recTable, pc,
                   findingsTable, conflictsTable, enhanced,
                   scoreVars, auditVars, analysisVars,
                   serviceVars>>

\* GET /:id/recommendations?runId= ; rows holds the ids of the rows returned
GetRecommendations ==
    /\ response' = [route |-> "GET recommendations", status |-> 200,
                    rows |-> [i \in DOMAIN recTable |-> recTable[i].id]]
    /\ UNCHANGED <<inventory, profile, findings, recommendations, recTable, pc,
                   findingsTable, conflictsTable, enhanced,
                   scoreVars, auditVars, analysisVars,
                   serviceVars>>

\* the status of a request body: a workflow status, another string, or absent
PatchBodies == {"open", "accepted", "dismissed", "closed", NULL}

\* PATCH /api/recommendations/:id
PatchStatus ==
    /\ \E id \in 1..(Len(recTable) + 1), status \in PatchBodies :
           IF status \notin {"open", "accepted", "dismissed"}
           THEN /\ response' = [route |-> "PATCH", status |-> 400, rows |-> <<>>]
                /\ UNCHANGED recTable
           ELSE IF ~\E i \in DOMAIN recTable : recTable[i].id = id
           THEN /\ response' = [route |-> "PATCH", status |-> 404, rows |-> <<>>]
                /\ UNCHANGED recTable
           ELSE /\ recTable' = [i \in DOMAIN recTable |->
                                   IF recTable[i].id = id
                                   THEN [recTable[i] EXCEPT !.status = status]
                                   ELSE recTable[i]]
                /\ response' = [route |-> "PATCH", status |-> 200, rows |-> <<id>>]
    /\ UNCHANGED <<inventory, profile, findings, recommendations, pc,
                   findingsTable, conflictsTable, enhanced,
                   scoreVars, auditVars, analysisVars,
                   serviceVars>>

RunNext ==
    \/ InsertFinding
    \/ DeletePriorRecommendations
    \/ GenerateRecommendations
    \/ InsertRecommendation
    \/ ReturnCount
    \/ ClearConflicts
    \/ AnalyzeObject
    \/ UpdateFindingCount
    \/ EnhanceNarrative
    \/ Complete
    \/ Fail
    \/ GetFindings
    \/ GetRecommendations
    \/ PatchStatus

SpecRun == RunInit /\ [][RunNext]_vars

(***************************************************************************)
(* Properties of the stored rows (SpecRun).                                *)
(***************************************************************************)
WorkflowStatuses == {"open", "accepted", "dismissed"}

\* C19: every stored recommendation has a workflow status of open, accepted
\* or dismissed, and apart from that status it is the row that was inserted:
\* no other column (analysis text included) has been changed since.
OnlyStatusMutated ==
    \A i \in DOMAIN recTable :
        /\ recTable[i].status \in WorkflowStatuses
        /\ [recTable[i] EXCEPT !.status = "open"]
               = RecommendationRow(recTable[i].id, recommendations[i])

\* C20: a reader of the findings or of the recommendations of the run gets
\* none of the rows of the pass or all of them, and a pass that has failed
\* has no row stored under its run id.
PassWritesAtomically ==
    /\ response.route = "GET findings"
           => Len(response.rows) \in {0, Len(findings)}
    /\ response.route = "GET recommendations"
           => Len(response.rows) \in
                  {0, Len(buildRecommendations(inventory, findings,
                                               profile.automation_preference))}
    /\ pc = "failed" => findingsTable = <<>> /\ recTable = <<>>

(***************************************************************************)
(* SpecRules: the start of the background pass (inventory, profile and     *)
(* rules are read by three awaited queries) with the rule and profile      *)
(* routes served between the queries.                                      *)
(***************************************************************************)
MaxEdits == 2   \* requests served by the rule and profile routes

RuleRow(id, layer, name, description, severity, checkType, appliesTo_, template,
        conditions, builtin, active, sortOrder) ==
    [id |-> id, layer |-> layer, name |-> name, description |-> description,
     severity |-> severity, check_type |-> checkType, applies_to |-> appliesTo_,
     recommendation_template |-> template, conditions |-> conditions,
     is_builtin |-> builtin, is_active |-> active, sort_order |-> sortOrder]

\* the seeded row of WFR001, and a custom rule created through POST /rules
SeedRules ==
    << RuleRow("WFR001", "platform", "Active Workflow Rule", "deprecated", "error",
               "per_item", <<WorkflowRule>>, "Migrate", None, TRUE, TRUE, 10),
       RuleRow("CUST1", "quality", "Flows", "", "warning", "per_item", <<>>, "",
               Some(<< [field |-> "automation_type", op |-> "eq",
                        value |-> Scalar(RecordTriggeredFlow)] >>),
               FALSE, TRUE, 20) >>

\* CHECKS[rule.id], on the rows of AnalysisInventory
CHECKS(id) ==
    IF id = "WFR001"
    THEN Some(Check([i \in DOMAIN AnalysisInventory |->
                        IF /\ AnalysisInventory[i].automation_type = WorkflowRule
                           /\ AnalysisInventory[i].is_active
                        THEN "true" ELSE "false"], FALSE, <<>>))
    ELSE None

\* SELECT * FROM rules WHERE is_active = true ORDER BY sort_order, id.  Rows
\* are inserted with sort_order = max + 10, so the table is kept in that order.
loadActiveRules(table) ==
    LET active == SelectSeq(table, LAMBDA r : r.is_active)
    IN [k \in DOMAIN active |->
           [id |-> active[k].id, layer |-> active[k].layer,
            severity |-> active[k].severity, check_type |-> active[k].check_type,
            applies_to |-> active[k].applies_to, conditions |-> active[k].conditions,
            check |-> CHECKS(active[k].id)]]

DEFAULT_PROFILE ==
    [automation_preference |-> "flow_first", active_rule_layers |-> AllLayers,
     suppressed_rule_ids |-> <<>>]

\* a field of a request body: absent, or its value
PutBody(layer, name, description, severity, checkType, appliesTo_, template,
        conditions, active) ==
    [layer |-> layer, name |-> name, description |-> description,
     severity |-> severity, check_type |-> checkType, applies_to |-> appliesTo_,
     recommendation_template |-> template, conditions |-> conditions,
     is_active |-> active]

PutBodies ==
    {PutBody(None, None, None, Some("info"), None, None, None, None, None),
     PutBody(None, None, None, None, None, None, None, None, Some(FALSE)),
     PutBody(None, Some("Renamed"), Some("reworded"), None, None, None, None, None, None),
     PutBody(None, None, None, None, None, None, Some("Replace"), None, None),
     PutBody(Some("risk"), None, None, None, Some("cross_item"),
             Some(<<RecordTriggeredFlow>>), None,
             Some(<< [field |-> "automation_type", op |-> "eq",
                      value |-> Scalar(WorkflowRule)] >>), None)}

\* value ?? rule.value
orElse(value, current) == IF value # None THEN value[1] ELSE current

rowIndex(table, id) == CHOOSE k \in DOMAIN table : table[k].id = id
hasRow(table, id) == \E k \in DOMAIN table : table[k].id = id

KnownIds == {"WFR001", "CUST1", "CUST2", "NONE"}

ruleRouteFrame ==
    UNCHANGED <<scoreVars, auditVars, inventory, profile, findings, recommendations,
                recTable, pc, analysisVars, findingsTable, conflictsTable, enhanced,
                remediationVars, progressVars, deleteVars>>

\* PUT /api/rules/:id
PutRule ==
    /\ edits < MaxEdits
    /\ edits' = edits + 1
    /\ \E id \in KnownIds, body \in PutBodies :
           IF ~hasRow(rulesTable, id)
           THEN /\ response' = [route |-> "PUT rule", status |-> 404, rows |-> <<>>]
                /\ UNCHANGED rulesTable
           ELSE LET k == rowIndex(rulesTable, id)
                    rule == rulesTable[k]
                    metadata == [rule EXCEPT
                        !.name = orElse(body.name, rule.name),
                        !.description = orElse(body.description, rule.description),
                        !.severity = orElse(body.severity, rule.severity),
                        !.recommendation_template =
                            orElse(body.recommendation_template,
                                   rule.recommendation_template),
                        !.is_active = orElse(body.is_active, rule.is_active)]
                    updated ==
                        IF rule.is_builtin THEN metadata
                        ELSE [metadata EXCEPT
                                 !.layer = orElse(body.layer, rule.layer),
                                 !.check_type = orElse(body.check_type, rule.check_type),
                                 !.applies_to = orElse(body.applies_to, rule.applies_to),
                                 !.conditions = IF body.conditions # None
                                                THEN body.conditions
                                                ELSE rule.conditions]
                IN /\ rulesTable' = [rulesTable EXCEPT ![k] = updated]
                   /\ response' = [route |-> "PUT rule", status |-> 200, rows |-> <<id>>]
    /\ UNCHANGED profileTable
    /\ ruleRouteFrame

\* DELETE /api/rules/:id
DeleteRule ==
    /\ edits < MaxEdits
    /\ edits' = edits + 1
    /\ \E id \in KnownIds :
           IF ~hasRow(rulesTable, id)
           THEN /\ response' = [route |-> "DELETE rule", status |-> 404, rows |-> <<>>]
                /\ UNCHANGED rulesTable
           ELSE IF rulesTable[rowIndex(rulesTable, id)].is_builtin
           THEN /\ response' = [route |-> "DELETE rule", status |-> 403, rows |-> <<>>]
                /\ UNCHANGED rulesTable
           ELSE /\ rulesTable' = SelectSeq(rulesTable, LAMBDA r : r.id # id)
                /\ response' = [route |-> "DELETE rule", status |-> 204, rows |-> <<>>]
    /\ UNCHANGED profileTable
    /\ ruleRouteFrame

\* the id, severity and check_type of the body of POST /api/rules
PostBodies ==
    [id : {"", "WFR001", "CUST2"}, severity : {"warning", "fatal"},
     check_type : {"per_item", "batch"}]

maxSortOrder(table) ==
    IF table = <<>> THEN 0 ELSE table[Len(table)].sort_order

\* POST /api/rules
PostRule ==
    /\ edits < MaxEdits
    /\ edits' = edits + 1
    /\ \E body \in PostBodies :
           IF \/ body.id = ""
              \/ body.severity \notin {"error", "warning", "info"}
              \/ body.check_type \notin {"per_item", "cross_item"}
           THEN /\ response' = [route |-> "POST rule", status |-> 400, rows |-> <<>>]
                /\ UNCHANGED rulesTable
           ELSE IF hasRow(rulesTable, body.id)
           THEN /\ response' = [route |-> "POST rule", status |-> 409, rows |-> <<>>]
                /\ UNCHANGED rulesTable
           ELSE /\ rulesTable' = Append(rulesTable,
                       RuleRow(body.id, "quality", "Custom", "", body.severity,
                               body.check_type, <<>>, "",
                               Some(<< [field |-> "automation_type", op |-> "eq",
                                        value |-> Scalar(WorkflowRule)] >>),
                               FALSE, TRUE, maxSortOrder(rulesTable) + 10))
                /\ response' = [route |-> "POST rule", status |-> 201,
                                rows |-> <<body.id>>]
    /\ UNCHANGED profileTable
    /\ ruleRouteFrame

ProfileBodies ==
    {[automation_preference |-> "flow_first", active_rule_layers |-> AllLayers,
      suppressed_rule_ids |-> <<"WFR001">>],
     [automation_preference |-> "apex_first",
      active_rule_layers |-> <<"quality", "risk">>, suppressed_rule_ids |-> <<>>]}

\* PUT /api/orgs/:orgId/profile
PutProfile ==
    /\ edits < MaxEdits
    /\ edits' = edits + 1
    /\ \E body \in ProfileBodies :
           /\ profileTable' = Some(body)
           /\ response' = [route |-> "PUT profile", status |-> 200, rows |-> <<>>]
    /\ UNCHANGED rulesTable
    /\ ruleRouteFrame

passStepFrame ==
    UNCHANGED <<scoreVars, auditVars, findings, recommendations, recTable,
                analysisThrew, runVars, serviceVars>>

\* const inventoryResult = await pool.query(SELECT ... FROM automation_inventory)
LoadInventory ==
    /\ pc = "load_inventory"
    /\ inventory' = AnalysisInventory
    /\ pc' = "load_profile"
    /\ UNCHANGED <<profile, rules>>
    /\ passStepFrame

\* const profile = profileResult.rows[0] || { ...default }
LoadProfile ==
    /\ pc = "load_profile"
    /\ profile' = IF profileTable = None THEN DEFAULT_PROFILE ELSE profileTable[1]
    /\ pc' = "load_rules"
    /\ UNCHANGED <<inventory, rules>>
    /\ passStepFrame

\* const rules = await loadActiveRules()
LoadActiveRules ==
    /\ pc = "load_rules"
    /\ rules' = loadActiveRules(rulesTable)
    /\ pc' = "analysis"
    /\ UNCHANGED <<inventory, profile>>
    /\ passStepFrame

\* POST /:id/analysis has inserted the run and answered with its run_id
RulesInit ==
    /\ rulesTable = SeedRules
    /\ profileTable = None
    /\ edits = 0
    /\ inventory = <<>>
    /\ profile = [automation_preference |-> "flow_first"]
    /\ findings = <<>>
    /\ recommendations = <<>>
    /\ recTable = <<>>
    /\ pc = "load_inventory"
    /\ scored = <<>>
    /\ AuditIdle
    /\ AnalysisIdle
    /\ RunIdle
    /\ RemediationIdle
    /\ ProgressIdle
    /\ DeleteIdle

RulesNext ==
    \/ LoadInventory
    \/ LoadProfile
    \/ LoadActiveRules
    \/ RunAnalysis
    \/ PutRule
    \/ DeleteRule
    \/ PostRule
    \/ PutProfile

SpecRules == RulesInit /\ [][RulesNext]_vars

(***************************************************************************)
(* Properties of the rule routes and of the snapshot of a pass.            *)
(***************************************************************************)
\* C21: the findings of the pass are those of the rules and the profile
\* stored when the run was created, whatever was committed afterwards.
FindingsFromSnapshotAtStart ==
    pc = "analysed" =>
        findings = runAnalysis(AnalysisInventory, loadActiveRules(SeedRules),
                               DEFAULT_PROFILE).findings

\* C22: no request removes a built-in rule or changes its layer, check type,
\* applies-to set, conditions, name or description.
BuiltinRuleFrame ==
    [][\A k \in DOMAIN rulesTable :
          rulesTable[k].is_builtin =>
              \E j \in DOMAIN rulesTable' :
                  /\ rulesTable'[j].id = rulesTable[k].id
                  /\ rulesTable'[j].is_builtin
                  /\ rulesTable'[j].layer = rulesTable[k].layer
                  /\ rulesTable'[j].check_type = rulesTable[k].check_type
                  /\ rulesTable'[j].applies_to = rulesTable[k].applies_to
                  /\ rulesTable'[j].conditions = rulesTable[k].conditions
                  /\ rulesTable'[j].name = rulesTable[k].name
                  /\ rulesTable'[j].description = rulesTable[k].description]_vars

(***************************************************************************)
(* SpecRemediation: remediation jobs of one org under initiate, approve,   *)
(* reject and rollback requests.  One approveRemediation call runs at a    *)
(* time; the other requests are served between its awaited steps.          *)
(***************************************************************************)
MaxJobs == 1      \* remediation jobs created by initiateRemediation
MaxDeploys == 2   \* deploy calls after which no further approve or rollback starts

\* the orgs row: env as recorded at login, and the instance URL
Orgs ==
    [env : {"production", "sandbox"},
     instance_url : {"https://acme.my.salesforce.com",
                     "https://acme--sandbox.my.salesforce.com"}]

\* org.instance_url.includes('sandbox')
includesSandbox(url) == url = "https://acme--sandbox.my.salesforce.com"

\* assertSandbox returns instead of throwing
assertSandbox(o) == ~(o.env # "sandbox" /\ ~includesSandbox(o.instance_url))

\* isApexPattern of the job: two artifacts are deployed instead of one
JobPatterns == {"xml", "apex"}

Job(status, pat) == [status |-> status, pattern |-> pat]

setStatus(j, status) == [jobs EXCEPT ![j].status = status]

rollbackRowsOf(j) == SelectSeq(rollbackRows, LAMBDA r : r.remediation_job_id = j)

Deploy(j, via, from) == [job |-> j, via |-> via, from |-> from]

remediationFrame ==
    UNCHANGED <<scoreVars, auditVars, inventory, profile, findings, recommendations,
                recTable, pc, analysisVars, findingsTable, conflictsTable, enhanced,
                ruleVars, org, progressVars, deleteVars>>

RemediationInit ==
    /\ org \in Orgs
    /\ jobs = <<>>
    /\ generating = {}
    /\ approval = NoApproval
    /\ rollbackRows = <<>>
    /\ deployLog = <<>>
    /\ scored = <<>>
    /\ AuditIdle
    /\ AnalysisIdle
    /\ RunIdle
    /\ RulesIdle
    /\ ProgressIdle
    /\ DeleteIdle
    /\ inventory = <<>>
    /\ profile = [automation_preference |-> "flow_first"]
    /\ findings = <<>>
    /\ recommendations = <<>>
    /\ recTable = <<>>
    /\ pc = "idle"

\* initiateRemediation up to the INSERT of the job with status 'generating'
InitiateRemediation ==
    /\ Len(jobs) < MaxJobs
    /\ \E pat \in JobPatterns : jobs' = Append(jobs, Job("generating", pat))
    /\ generating' = generating \cup {Len(jobs) + 1}
    /\ response' = [route |-> "POST remediate", status |-> 0, rows |-> <<>>]
    /\ UNCHANGED <<approval, rollbackRows, deployLog>>
    /\ remediationFrame

\* the generator returns or raises: status 'review' or 'failed'
GeneratorEnds ==
    /\ \E j \in generating :
           /\ \E ok \in BOOLEAN :
                  /\ jobs' = setStatus(j, IF ok THEN "review" ELSE "failed")
                  /\ response' = [route |-> "POST remediate",
                                  status |-> IF ok THEN 200 ELSE 500, rows |-> <<j>>]
           /\ generating' = generating \ {j}
    /\ UNCHANGED <<approval, rollbackRows, deployLog>>
    /\ remediationFrame

\* approveRemediation: SELECT the job, UPDATE status = 'approved'
ApproveStart ==
    /\ approval.pc = "idle"
    /\ Len(deployLog) < MaxDeploys
    /\ \E j \in 1..(Len(jobs) + 1) :
           IF j \notin DOMAIN jobs
           THEN /\ response' = [route |-> "POST approve", status |-> 500, rows |-> <<>>]
                /\ UNCHANGED <<jobs, approval>>
           ELSE /\ jobs' = setStatus(j, "approved")
                /\ approval' = [job |-> j, pc |-> "approved", from |-> jobs[j].status]
                /\ UNCHANGED response
    /\ UNCHANGED <<generating, rollbackRows, deployLog>>
    /\ remediationFrame

\* storeRollbackIfExists, once for an XML job and twice for an Apex job: a row
\* is stored for every artifact retrieveMetadata finds; its errors are caught
ApproveStoreRollback ==
    /\ approval.pc = "approved"
    /\ \E n \in 0..(IF jobs[approval.job].pattern = "apex" THEN 2 ELSE 1) :
           rollbackRows' =
               IF assertSandbox(org)
               THEN rollbackRows \o [k \in 1..n |-> [remediation_job_id |-> approval.job]]
               ELSE rollbackRows
    /\ approval' = [approval EXCEPT !.pc = "stored"]
    /\ UNCHANGED <<jobs, generating, deployLog, response>>
    /\ remediationFrame

\* UPDATE remediation_jobs SET status = 'deploying'
ApproveDeploying ==
    /\ approval.pc = "stored"
    /\ jobs' = setStatus(approval.job, "deploying")
    /\ approval' = [approval EXCEPT !.pc = "deploying"]
    /\ UNCHANGED <<generating, rollbackRows, deployLog, response>>
    /\ remediationFrame

\* deployMetadata of the flow, or of the trigger of an Apex job, and the
\* UPDATE that follows its result
ApproveDeploy ==
    /\ approval.pc = "deploying"
    /\ LET j == approval.job
       IN IF ~assertSandbox(org)
          THEN /\ jobs' = setStatus(j, "failed")
               /\ approval' = NoApproval
               /\ UNCHANGED deployLog
          ELSE /\ deployLog' = Append(deployLog, Deploy(j, "approve", approval.from))
               /\ \E succeeded \in BOOLEAN :
                      IF ~succeeded
                      THEN jobs' = setStatus(j, "failed") /\ approval' = NoApproval
                      ELSE IF jobs[j].pattern = "apex"
                      THEN /\ approval' = [approval EXCEPT !.pc = "class"]
                           /\ UNCHANGED jobs
                      ELSE jobs' = setStatus(j, "deployed") /\ approval' = NoApproval
    /\ response' = [route |-> "POST approve", status |-> 200, rows |-> <<approval.job>>]
    /\ UNCHANGED <<generating, rollbackRows>>
    /\ remediationFrame

\* deployMetadata of the handler class of an Apex job; when it fails the
\* rollback rows of the job are deployed back (best effort) before markFailed
ApproveDeployClass ==
    /\ approval.pc = "class"
    /\ LET j == approval.job
           restored == [k \in DOMAIN rollbackRowsOf(j) |->
                           Deploy(j, "approve_rollback", jobs[j].status)]
       IN \E succeeded \in BOOLEAN :
              IF succeeded
              THEN /\ deployLog' = Append(deployLog, Deploy(j, "approve", approval.from))
                   /\ jobs' = setStatus(j, "deployed")
              ELSE /\ deployLog' = Append(deployLog, Deploy(j, "approve", approval.from))
                                   \o restored
                   /\ jobs' = setStatus(j, "failed")
    /\ approval' = NoApproval
    /\ response' = [route |-> "POST approve", status |-> 200, rows |-> <<approval.job>>]
    /\ UNCHANGED <<generating, rollbackRows>>
    /\ remediationFrame

\* rejectRemediation: UPDATE ... SET status = 'pending' WHERE id = $1
RejectRemediation ==
    /\ \E j \in DOMAIN jobs :
           /\ jobs[j].status # "pending"
           /\ jobs' = setStatus(j, "pending")
           /\ response' = [route |-> "POST reject", status |-> 200, rows |-> <<j>>]
    /\ UNCHANGED <<generating, approval, rollbackRows, deployLog>>
    /\ remediationFrame

\* rollbackDeployment: every rollback row of the job is deployed, then
\* UPDATE ... SET status = 'rolled_back'
RollbackDeployment ==
    /\ Len(deployLog) < MaxDeploys
    /\ \E j \in DOMAIN jobs :
           IF rollbackRowsOf(j) = <<>> \/ ~assertSandbox(org)
           THEN /\ response' = [route |-> "POST rollback", status |-> 500, rows |-> <<>>]
                /\ UNCHANGED <<jobs, deployLog>>
           ELSE /\ deployLog' = deployLog \o
                       [k \in DOMAIN rollbackRowsOf(j) |->
                           Deploy(j, "rollback", jobs[j].status)]
                /\ jobs' = setStatus(j, "rolled_back")
                /\ response' = [route |-> "POST rollback", status |-> 200, rows |-> <<j>>]
    /\ UNCHANGED <<generating, approval, rollbackRows>>
    /\ remediationFrame

RemediationNext ==
    \/ InitiateRemediation
    \/ GeneratorEnds
    \/ ApproveStart
    \/ ApproveStoreRollback
    \/ ApproveDeploying
    \/ ApproveDeploy
    \/ ApproveDeployClass
    \/ RejectRemediation
    \/ RollbackDeployment

SpecRemediation == RemediationInit /\ [][RemediationNext]_vars

(***************************************************************************)
(* Properties of the remediation jobs.                                     *)
(***************************************************************************)
\* C25: no deploy call is sent to an org whose recorded env is 'production',
\* and no job of such an org reaches the status 'deployed'.
NoDeployToProduction ==
    org.env = "production" =>
        /\ deployLog = <<>>
        /\ \A j \in DOMAIN jobs : jobs[j].status # "deployed"

\* C28: approve has deployed only for jobs that were in status 'review' when
\* it was requested, and rollback only for jobs that were 'deployed'.
DeploysFollowLifecycle ==
    \A k \in DOMAIN deployLog :
        /\ deployLog[k].via = "approve" => deployLog[k].from = "review"
        /\ deployLog[k].via = "rollback" => deployLog[k].from = "deployed"

(***************************************************************************)
(* SpecProgress: the in-memory progress store under any sequence of        *)
(* create, step, done, fail and get calls and of removal timers firing.    *)
(***************************************************************************)
MaxSteps == 2    \* steps pushed to one job
MaxTimers == 2   \* removal timers pending for one job id

ProgressLabels == {"Loading automation inventory"}

ProgressMessages == {"boom"}

\* store.set / store.delete on the Map, a function on the ids it holds
storeSet(id, job) == [k \in (DOMAIN store) \cup {id} |-> IF k = id THEN job ELSE store[k]]

storeDelete(id) == [k \in (DOMAIN store) \ {id} |-> store[k]]

\* for (const s of job.steps) if (s.status === 'running') s.status = to
closeRunning(steps, to) ==
    [k \in DOMAIN steps |->
        IF steps[k].status = "running" THEN [steps[k] EXCEPT !.status = to] ELSE steps[k]]

progressFrame ==
    UNCHANGED <<scoreVars, auditVars, inventory, profile, findings, recommendations,
                recTable, pc, analysisVars, findingsTable, conflictsTable, enhanced,
                ruleVars, remediationVars, deleteVars>>

ProgressInit ==
    /\ ProgressIdle
    /\ RemediationIdle
    /\ DeleteIdle
    /\ scored = <<>>
    /\ AuditIdle
    /\ AnalysisIdle
    /\ RunIdle
    /\ RulesIdle
    /\ inventory = <<>>
    /\ profile = [automation_preference |-> "flow_first"]
    /\ findings = <<>>
    /\ recommendations = <<>>
    /\ recTable = <<>>
    /\ pc = "idle"

\* create(id): a fresh entry under the id, whether or not the id is in use
create ==
    /\ \E id \in ProgressIds :
           store' = storeSet(id, [steps |-> <<>>, status |-> "running", error |-> NULL])
    /\ UNCHANGED <<timers, response>>
    /\ progressFrame

\* step(jobId, label)
step ==
    /\ \E jobId \in ProgressIds, label \in ProgressLabels :
           IF jobId \notin DOMAIN store
           THEN UNCHANGED store
           ELSE /\ Len(store[jobId].steps) < MaxSteps
                /\ store' = [store EXCEPT ![jobId].steps =
                       Append(closeRunning(@, "done"), [label |-> label, status |-> "running"])]
    /\ UNCHANGED <<timers, response>>
    /\ progressFrame

\* done(jobId)
done ==
    /\ \E jobId \in ProgressIds :
           IF jobId \notin DOMAIN store
           THEN UNCHANGED <<store, timers>>
           ELSE /\ timers[jobId] < MaxTimers
                /\ store' = [store EXCEPT ![jobId].steps = closeRunning(@, "done"),
                                          ![jobId].status = "done"]
                /\ timers' = [timers EXCEPT ![jobId] = @ + 1]
    /\ UNCHANGED response
    /\ progressFrame

\* fail(jobId, message)
fail ==
    /\ \E jobId \in ProgressIds, message \in ProgressMessages :
           IF jobId \notin DOMAIN store
           THEN UNCHANGED <<store, timers>>
           ELSE /\ timers[jobId] < MaxTimers
                /\ store' = [store EXCEPT ![jobId].steps = closeRunning(@, "error"),
                                          ![jobId].status = "error",
                                          ![jobId].error = message]
                /\ timers' = [timers EXCEPT ![jobId] = @ + 1]
    /\ UNCHANGED response
    /\ progressFrame

\* setTimeout(() => store.delete(String(jobId)), 60_000) fires
TimerFires ==
    /\ \E jobId \in ProgressIds :
           /\ timers[jobId] > 0
           /\ timers' = [timers EXCEPT ![jobId] = @ - 1]
           /\ store' = storeDelete(jobId)
    /\ UNCHANGED response
    /\ progressFrame

\* get(jobId) behind GET /api/progress/:jobId
get ==
    /\ \E jobId \in ProgressIds :
           response' = IF jobId \in DOMAIN store
                       THEN [route |-> "GET progress", status |-> 200,
                             rows |-> <<store[jobId].status>>]
                       ELSE [route |-> "GET progress", status |-> 404, rows |-> <<>>]
    /\ UNCHANGED <<store, timers>>
    /\ progressFrame

ProgressNext ==
    \/ create
    \/ step
    \/ done
    \/ fail
    \/ TimerFires
    \/ get

SpecProgress == ProgressInit /\ [][ProgressNext]_vars

(***************************************************************************)
(* Properties of the progress store.                                       *)
(***************************************************************************)
runningSteps(job) == {k \in DOMAIN job.steps : job.steps[k].status = "running"}

\* C29: every job has at most one running step, and a job whose status is
\* 'done' or 'error' has no running step.
FinishedJobHasNoRunningStep ==
    \A id \in DOMAIN store :
        /\ Cardinality(runningSteps(store[id])) <= 1
        /\ store[id].status \in {"done", "error"} => runningSteps(store[id]) = {}

(***************************************************************************)
(* SpecDelete: DELETE /api/scans/:id, one awaited statement per step, on   *)
(* the rows that belong to one scan.  scanData counts the rows per table;  *)
(* remediation_jobs counts the jobs that reference a recommendation of the *)
(* scan.                                                                   *)
(***************************************************************************)
MaxRows == 1   \* rows of one table that belong to the scan

ScanTables ==
    {"automation_conflicts", "recommendation_items", "recommendations", "findings",
     "analysis_runs", "automation_inventory", "metadata_items"}

\* the contents the schema's foreign keys allow: a referencing row needs its
\* referenced row
ScanContents ==
    {d \in [ScanTables \cup {"scans", "remediation_jobs"} -> 0..MaxRows] :
        /\ d.scans = 0 => \A t \in ScanTables : d[t] = 0
        /\ d.recommendation_items > 0 => d.recommendations > 0
        /\ d.recommendations > 0 => d.analysis_runs > 0
        /\ d.automation_inventory > 0 => d.metadata_items > 0
        /\ d.remediation_jobs > 0 => d.recommendations > 0}

deleteFrame ==
    UNCHANGED <<scoreVars, auditVars, inventory, profile, findings, recommendations,
                recTable, pc, analysisVars, findingsTable, conflictsTable, enhanced,
                ruleVars, remediationVars, progressVars, scanBefore>>

DeleteInit ==
    /\ scanData \in ScanContents
    /\ scanBefore = scanData
    /\ deleting = "idle"
    /\ ProgressIdle
    /\ RemediationIdle
    /\ scored = <<>>
    /\ AuditIdle
    /\ AnalysisIdle
    /\ RunIdle
    /\ RulesIdle
    /\ inventory = <<>>
    /\ profile = [automation_preference |-> "flow_first"]
    /\ findings = <<>>
    /\ recommendations = <<>>
    /\ recTable = <<>>
    /\ pc = "idle"

\* the tables after DELETE FROM t ... of the scan's rows
withoutRows(t) == [scanData EXCEPT ![t] = 0]

\* SELECT id FROM scans WHERE id = $1, 404 when there is none
SelectScan ==
    /\ deleting = "idle"
    /\ IF scanData.scans = 0
       THEN /\ response' = [route |-> "DELETE scan", status |-> 404, rows |-> <<>>]
            /\ deleting' = "not_found"
       ELSE /\ deleting' = "automation_conflicts"
            /\ UNCHANGED response
    /\ UNCHANGED scanData
    /\ deleteFrame

DeleteConflicts ==
    /\ deleting = "automation_conflicts"
    /\ scanData' = withoutRows("automation_conflicts")
    /\ deleting' = "recommendation_items"
    /\ UNCHANGED response
    /\ deleteFrame

DeleteRecommendationItems ==
    /\ deleting = "recommendation_items"
    /\ scanData' = withoutRows("recommendation_items")
    /\ deleting' = "recommendations"
    /\ UNCHANGED response
    /\ deleteFrame

\* DELETE FROM recommendations: remediation_jobs.recommendation_id references
\* recommendations(id) with no ON DELETE action, so the statement is rejected
\* while a job references one of the rows; the handler has no try/catch and
\* sends no response
DeleteRecommendations ==
    /\ deleting = "recommendations"
    /\ IF scanData.remediation_jobs > 0 /\ scanData.recommendations > 0
       THEN /\ deleting' = "rejected"
            /\ UNCHANGED scanData
       ELSE /\ deleting' = "findings"
            /\ scanData' = withoutRows("recommendations")
    /\ UNCHANGED response
    /\ deleteFrame

DeleteFindings ==
    /\ deleting = "findings"
    /\ scanData' = withoutRows("findings")
    /\ deleting' = "analysis_runs"
    /\ UNCHANGED response
    /\ deleteFrame

DeleteAnalysisRuns ==
    /\ deleting = "analysis_runs"
    /\ scanData' = withoutRows("analysis_runs")
    /\ deleting' = "automation_inventory"
    /\ UNCHANGED response
    /\ deleteFrame

DeleteInventory ==
    /\ deleting = "automation_inventory"
    /\ scanData' = withoutRows("automation_inventory")
    /\ deleting' = "metadata_items"
    /\ UNCHANGED response
    /\ deleteFrame

DeleteMetadataItems ==
    /\ deleting = "metadata_items"
    /\ scanData' = withoutRows("metadata_items")
    /\ deleting' = "scans"
    /\ UNCHANGED response
    /\ deleteFrame

\* DELETE FROM scans, then 204
DeleteScan ==
    /\ deleting = "scans"
    /\ scanData' = withoutRows("scans")
    /\ deleting' = "deleted"
    /\ response' = [route |-> "DELETE scan", status |-> 204, rows |-> <<>>]
    /\ deleteFrame

DeleteNext ==
    \/ SelectScan
    \/ DeleteConflicts
    \/ DeleteRecommendationItems
    \/ DeleteRecommendations
    \/ DeleteFindings
    \/ DeleteAnalysisRuns
    \/ DeleteInventory
    \/ DeleteMetadataItems
    \/ DeleteScan

SpecDelete == DeleteInit /\ [][DeleteNext]_vars

(***************************************************************************)
(* Properties of the scan delete.                                          *)
(***************************************************************************)
\* C30: once the handler has ended, the scan is either gone with all its rows
\* or every table still holds the rows it held when the request arrived.
ScanDeleteAllOrNothing ==
    deleting \in {"deleted", "rejected", "not_found"} =>
        \/ /\ scanData.scans = 0
           /\ \A t \in ScanTables : scanData[t] = 0
        \/ scanData = scanBefore

====
